---- MODULE Spec2Model ----
(***************************************************************************)
(* A model of the chess core of rush: the Board of chess/src/board.rs      *)
(* (do_move, undo_move, is_pseudo_legal, is_legal, parse_move, the FEN      *)
(* parser and emitter) and the staged legal-move generator of               *)
(* chess/src/move_gen.rs.                                                   *)
(*                                                                         *)
(* The modules board.rs depends on (square, bitboard, attacks, moves,       *)
(* castle_rights, en_passant, zobrist, piece, color) are not part of the    *)
(* source tree at hand; they are modelled from the specification and are   *)
(* grouped in the first part of this module.                                *)
(***************************************************************************)
EXTENDS Integers, Sequences, FiniteSets, TLC

(***************************************************************************)
(* Geometry: squares 0..63, a1 = 0, h1 = 7, a8 = 56, h8 = 63.               *)
(***************************************************************************)
Squares == 0..63

Sq(x, y) == y * 8 + x

X(sq) == sq % 8

Y(sq) == sq \div 8

OnBoard(x, y) == x >= 0 /\ x <= 7 /\ y >= 0 /\ y <= 7

Abs(n) == IF n < 0 THEN -n ELSE n

Sign(n) == IF n < 0 THEN -1 ELSE IF n > 0 THEN 1 ELSE 0

A1 == Sq(0, 0)
C1 == Sq(2, 0)
D1 == Sq(3, 0)
E1 == Sq(4, 0)
F1 == Sq(5, 0)
G1 == Sq(6, 0)
H1 == Sq(7, 0)
A8 == Sq(0, 7)
C8 == Sq(2, 7)
D8 == Sq(3, 7)
E8 == Sq(4, 7)
F8 == Sq(5, 7)
G8 == Sq(6, 7)
H8 == Sq(7, 7)

Colors == {"White", "Black"}

Pieces == {"Pawn", "Rook", "Knight", "Bishop", "Queen", "King"}

\* Color::invert
Invert(c) == IF c = "White" THEN "Black" ELSE "White"

\* Option: None, or Some(v).
None == <<>>

Some(v) == <<v>>

Unwrap(o) == o[1]

\* Result: Err, or Ok(v).
Err == [ok |-> FALSE]

Ok(v) == [ok |-> TRUE, val |-> v]

(***************************************************************************)
(* Bitboard: a set of squares.  The geometric queries are tables indexed   *)
(* by a pair of squares.                                                   *)
(***************************************************************************)
EMPTY == {}

FULL == Squares

Straight(a, b) == a # b /\ (X(a) = X(b) \/ Y(a) = Y(b))

Diagonal(a, b) == a # b /\ Abs(X(a) - X(b)) = Abs(Y(a) - Y(b))

Aligned(a, b) == Straight(a, b) \/ Diagonal(a, b)

\* Is s on the open segment between a and b (a, b aligned)?
OnSegment(a, b, s) ==
    LET dx == Sign(X(b) - X(a))
        dy == Sign(Y(b) - Y(a))
        n == IF dx # 0 THEN Abs(X(b) - X(a)) ELSE Abs(Y(b) - Y(a))
    IN \E k \in 1..(n - 1) : s = Sq(X(a) + k * dx, Y(a) + k * dy)

BetweenTable ==
    [a \in Squares |-> [b \in Squares |->
        IF Aligned(a, b) THEN {s \in Squares : OnSegment(a, b, s)} ELSE {}]]

\* BitBoard::between: the squares strictly between two aligned squares.
between(a, b) == BetweenTable[a][b]

\* BitBoard::between_straight
between_straight(a, b) == IF Straight(a, b) THEN BetweenTable[a][b] ELSE {}

\* BitBoard::between_diagonal
between_diagonal(a, b) == IF Diagonal(a, b) THEN BetweenTable[a][b] ELSE {}

\* Is s on the full line through a and b (a, b aligned)?
OnLine(a, b, s) ==
    LET dx == Sign(X(b) - X(a))
        dy == Sign(Y(b) - Y(a))
    IN \E k \in -7..7 : OnBoard(X(a) + k * dx, Y(a) + k * dy)
                        /\ s = Sq(X(a) + k * dx, Y(a) + k * dy)

RayMaskTable ==
    [a \in Squares |-> [b \in Squares |->
        IF Aligned(a, b) THEN {s \in Squares : OnLine(a, b, s)} ELSE {b}]]

\* BitBoard::ray_mask: the full line through a and b if they are aligned,
\* else a mask holding only b.
ray_mask(a, b) == RayMaskTable[a][b]

\* The squares of the rank of sq.
RankOf(sq) == {s \in Squares : Y(s) = Y(sq)}

\* BitBoard::iter_squares: the squares of a bitboard, lowest first.
RECURSIVE iter_squares(_)
iter_squares(bb) ==
    IF bb = {} THEN <<>>
    ELSE LET lo == CHOOSE s \in bb : \A t \in bb : s <= t
         IN <<lo>> \o iter_squares(bb \ {lo})

\* BitBoard::as_square_unchecked: the lowest square of a bitboard
\* (reads no square when the bitboard is empty: None).
as_square_unchecked(bb) ==
    IF bb = {} THEN None ELSE CHOOSE s \in bb : \A t \in bb : s <= t

\* Exclusive or of two bitboards.
Xor(a, b) == (a \ b) \cup (b \ a)

(***************************************************************************)
(* Attack tables (specification 4.1).                                      *)
(***************************************************************************)
KnightSteps ==
    {<<1, 2>>, <<2, 1>>, <<2, -1>>, <<1, -2>>,
     <<-1, -2>>, <<-2, -1>>, <<-2, 1>>, <<-1, 2>>}

KingSteps ==
    {<<1, 0>>, <<1, 1>>, <<0, 1>>, <<-1, 1>>,
     <<-1, 0>>, <<-1, -1>>, <<0, -1>>, <<1, -1>>}

RookDirs == {<<1, 0>>, <<-1, 0>>, <<0, 1>>, <<0, -1>>}

BishopDirs == {<<1, 1>>, <<1, -1>>, <<-1, 1>>, <<-1, -1>>}

StepTargets(sq, steps) ==
    {Sq(X(sq) + d[1], Y(sq) + d[2]) : d \in {e \in steps : OnBoard(X(sq) + e[1], Y(sq) + e[2])}}

KnightTable == [sq \in Squares |-> StepTargets(sq, KnightSteps)]

KingTable == [sq \in Squares |-> StepTargets(sq, KingSteps)]

\* attacks::knight
knight(sq) == KnightTable[sq]

\* attacks::king
king(sq) == KingTable[sq]

\* The direction a pawn of that color advances in.
Forward(color) == IF color = "White" THEN 1 ELSE -1

PawnTable ==
    [c \in Colors |-> [sq \in Squares |->
        StepTargets(sq, {<<-1, Forward(c)>>, <<1, Forward(c)>>})]]

\* attacks::pawns: the squares a pawn of that color on sq attacks.
pawns(color, sq) == PawnTable[color][sq]

\* attacks::pawn_push: the square in front of a pawn, if any.
pawn_push(color, sq) ==
    IF OnBoard(X(sq), Y(sq) + Forward(color))
    THEN Some(Sq(X(sq), Y(sq) + Forward(color))) ELSE None

\* attacks::pawn_double_push: two squares ahead, for a pawn on its
\* starting rank only.
pawn_double_push(color, sq) ==
    IF Y(sq) = (IF color = "White" THEN 1 ELSE 6)
    THEN Some(Sq(X(sq), Y(sq) + 2 * Forward(color))) ELSE None

\* The squares of the ray leaving sq in direction d, nearest first.
RayFrom(sq, d) ==
    LET n == Cardinality({k \in 1..7 : OnBoard(X(sq) + k * d[1], Y(sq) + k * d[2])})
    IN [k \in 1..n |-> Sq(X(sq) + k * d[1], Y(sq) + k * d[2])]

RayTable == [sq \in Squares |-> [d \in RookDirs \cup BishopDirs |-> RayFrom(sq, d)]]

\* The squares a slider on sq sees in direction d: up to and including
\* the first occupied square.
Sees(sq, d, occ) ==
    LET r == RayTable[sq][d]
        hit == {k \in 1..Len(r) : r[k] \in occ}
        last == IF hit = {} THEN Len(r) ELSE CHOOSE k \in hit : \A j \in hit : k <= j
    IN {r[k] : k \in 1..last}

\* attacks::rook
rook(sq, occ) == UNION {Sees(sq, d, occ) : d \in RookDirs}

\* attacks::bishop
bishop(sq, occ) == UNION {Sees(sq, d, occ) : d \in BishopDirs}

\* attacks::queen
queen(sq, occ) == rook(sq, occ) \cup bishop(sq, occ)

\* The attack set of a piece of that color and kind standing on sq.
attacks_of(color, piece, sq, occ) ==
    CASE piece = "Pawn" -> pawns(color, sq)
      [] piece = "Rook" -> rook(sq, occ)
      [] piece = "Knight" -> knight(sq)
      [] piece = "Bishop" -> bishop(sq, occ)
      [] piece = "Queen" -> queen(sq, occ)
      [] piece = "King" -> king(sq)

(***************************************************************************)
(* Moves (specification 3): from, to, kind, captured and promoted piece.   *)
(***************************************************************************)
Kinds == {"Quiet", "DoublePush", "Capture", "EnPassant", "Castle", "Promote", "PromoteCapture"}

Move(from, to, kind, capture, promote) ==
    [from |-> from, to |-> to, kind |-> kind, capture |-> capture, promote |-> promote]

quiet(from, to) == Move(from, to, "Quiet", None, None)

double_push(from, to) == Move(from, to, "DoublePush", None, None)

capture(from, to, piece) == Move(from, to, "Capture", Some(piece), None)

en_passant(from, to) == Move(from, to, "EnPassant", None, None)

castle(from, to) == Move(from, to, "Castle", None, None)

promote(from, to, piece) == Move(from, to, "Promote", None, Some(piece))

promote_capture(from, to, cap, piece) == Move(from, to, "PromoteCapture", Some(cap), Some(piece))

is_quiet(mv) == mv.kind = "Quiet"

is_double_push(mv) == mv.kind = "DoublePush"

is_capture(mv) == mv.kind \in {"Capture", "PromoteCapture"}

is_en_passant(mv) == mv.kind = "EnPassant"

is_castle(mv) == mv.kind = "Castle"

is_promote(mv) == mv.kind \in {"Promote", "PromoteCapture"}

get_capture(mv) == Unwrap(mv.capture)

get_promote(mv) == Unwrap(mv.promote)

(***************************************************************************)
(* Castle rights (specification 3): a set of masks, and the rights a move  *)
(* leaving or reaching a square clears.                                    *)
(***************************************************************************)
CastleMasks == {"WhiteOO", "WhiteOOO", "BlackOO", "BlackOOO"}

ClearedBy(sq) ==
    CASE sq = E1 -> {"WhiteOO", "WhiteOOO"}
      [] sq = H1 -> {"WhiteOO"}
      [] sq = A1 -> {"WhiteOOO"}
      [] sq = E8 -> {"BlackOO", "BlackOOO"}
      [] sq = H8 -> {"BlackOO"}
      [] sq = A8 -> {"BlackOOO"}
      [] OTHER -> {}

\* CastleRights::update
castle_update(rights, from, to) == (rights \ ClearedBy(from)) \ ClearedBy(to)

(***************************************************************************)
(* Zobrist keys (specification 3, 4.5).  A key is an exclusive or of the   *)
(* per-(color, piece, square) keys, possibly complemented: it is held as   *)
(* the set of the keys combined in it and a flag telling whether it is     *)
(* complemented.  Distinct combinations are distinct keys.                 *)
(***************************************************************************)
\* Zobrist::default, Zobrist::ZERO
ZobristZero == [keys |-> {}, inv |-> FALSE]

\* Zobrist::from((color, piece, sq))
ZobristKey(color, piece, sq) == [keys |-> {<<color, piece, sq>>}, inv |-> FALSE]

\* z1 ^ z2
ZXor(z1, z2) == [keys |-> Xor(z1.keys, z2.keys), inv |-> z1.inv # z2.inv]

\* !z
ZNot(z) == [keys |-> z.keys, inv |-> ~z.inv]

(***************************************************************************)
(* The Board of board.rs.  A board is a record of its fields, and panic    *)
(* tells whether an operation on it aborted (an unwrap of None, an          *)
(* unreachable arm); an aborted board is left as it was when it aborted.   *)
(***************************************************************************)
Panic(b) == [b EXCEPT !.panic = TRUE]

\* Board::get_bitboard
get_bitboard(b, color, piece) == b.bitboards[color][piece]

\* Board::get_piece
get_piece(b, sq) == b.mailbox[sq]

\* Board::get_king_sq
get_king_sq(b) == as_square_unchecked(get_bitboard(b, b.state.side_to_move, "King"))

\* Occupancy::update that leaves the occupancy of the color alone.
occ_update_all_only(occ, color, mask) == [occ EXCEPT !.all = Xor(@, mask)]

\* Occupancy::update
occ_update(occ, color, mask) ==
    [all |-> Xor(occ.all, mask),
     colored |-> [occ.colored EXCEPT ![color] = Xor(@, mask)]]

\* Board::place_piece::<ZOBRIST>
place_piece(b, zob, color, piece, sq) ==
    IF b.panic THEN b
    ELSE [b EXCEPT !.bitboards[color][piece] = Xor(@, {sq}),
                   !.mailbox[sq] = Some(<<color, piece>>),
                   !.occ = occ_update(@, color, {sq}),
                   !.state.zobrist = IF zob THEN ZXor(@, ZobristKey(color, piece, sq)) ELSE @]

\* Board::remove_piece that leaves the mailbox entry in place.
remove_piece_keep_mailbox(b, zob, sq) ==
    IF b.panic THEN b
    ELSE IF b.mailbox[sq] = None THEN Panic(b)
    ELSE LET color == Unwrap(b.mailbox[sq])[1]
             piece == Unwrap(b.mailbox[sq])[2]
         IN [b EXCEPT !.bitboards[color][piece] = Xor(@, {sq}),
                      !.occ = occ_update(@, color, {sq}),
                      !.state.zobrist = IF zob THEN ZXor(@, ZobristKey(color, piece, sq)) ELSE @]

\* Board::remove_piece::<ZOBRIST>; the (color, piece) it returns is
\* Unwrap(get_piece(b, sq)) of the board it is applied to.
remove_piece(b, zob, sq) ==
    IF b.panic THEN b
    ELSE IF b.mailbox[sq] = None THEN Panic(b)
    ELSE LET color == Unwrap(b.mailbox[sq])[1]
             piece == Unwrap(b.mailbox[sq])[2]
         IN [b EXCEPT !.bitboards[color][piece] = Xor(@, {sq}),
                      !.mailbox[sq] = None,
                      !.occ = occ_update(@, color, {sq}),
                      !.state.zobrist = IF zob THEN ZXor(@, ZobristKey(color, piece, sq)) ELSE @]

\* Board::displace_piece::<ZOBRIST>
displace_piece(b, zob, from, to) ==
    IF b.panic \/ b.mailbox[from] = None THEN remove_piece(b, zob, from)
    ELSE place_piece(remove_piece(b, zob, from), zob,
                     Unwrap(b.mailbox[from])[1], Unwrap(b.mailbox[from])[2], to)

\* Board::attackers_to
attackers_to(b, sq) ==
    LET us == b.state.side_to_move
        them == Invert(us)
        occ == b.occ.all
    IN (pawns(us, sq) \cap get_bitboard(b, them, "Pawn"))
       \cup (rook(sq, occ) \cap get_bitboard(b, them, "Rook"))
       \cup (knight(sq) \cap get_bitboard(b, them, "Knight"))
       \cup (bishop(sq, occ) \cap get_bitboard(b, them, "Bishop"))
       \cup (queen(sq, occ) \cap get_bitboard(b, them, "Queen"))
       \cup (king(sq) \cap get_bitboard(b, them, "King"))

\* Board::checkers that returns the set stored in the state.
checkers_stored(b) == b.state.checkers

\* Board::checkers
checkers(b) == attackers_to(b, get_king_sq(b))

\* Board::pinned without the test that a single square is occupied between
\* the king and the slider.
pinned_any_blocker(b) ==
    LET us == b.state.side_to_move
        occ_us == b.occ.colored[us]
        them == Invert(us)
        queens == get_bitboard(b, them, "Queen")
        king_sq == get_king_sq(b)
    IN UNION {between_straight(king_sq, sq) \cap occ_us :
                  sq \in get_bitboard(b, them, "Rook") \cup queens}
       \cup UNION {between_diagonal(king_sq, sq) \cap occ_us :
                       sq \in get_bitboard(b, them, "Bishop") \cup queens}

\* Board::pinned
pinned(b) ==
    LET us == b.state.side_to_move
        occ_us == b.occ.colored[us]
        them == Invert(us)
        queens == get_bitboard(b, them, "Queen")
        king_sq == get_king_sq(b)
        straight == {sq \in get_bitboard(b, them, "Rook") \cup queens :
                        Cardinality(between_straight(king_sq, sq) \cap b.occ.all) = 1}
        diagonal == {sq \in get_bitboard(b, them, "Bishop") \cup queens :
                        Cardinality(between_diagonal(king_sq, sq) \cap b.occ.all) = 1}
    IN UNION {between_straight(king_sq, sq) \cap occ_us : sq \in straight}
       \cup UNION {between_diagonal(king_sq, sq) \cap occ_us : sq \in diagonal}

\* Board::is_path_clear
is_path_clear(b, from, to) == between(from, to) \cap b.occ.all = {}

\* Board::is_legal aborts (ep_square.unwrap() of None, unreachable!()) on
\* these moves; is_pseudo_legal accepts some of them (a king move built
\* by Move::en_passant).
is_legal_aborts(b, mv) ==
    \/ is_castle(mv) /\ mv.to \notin {G1, G8, C1, C8}
    \/ ~is_castle(mv) /\ is_en_passant(mv) /\ b.state.ep_square = None

\* The closure can_castle of Board::is_legal.
legal_can_castle(b, sq1, sq2) == attackers_to(b, sq1) \cup attackers_to(b, sq2) = {}

\* The squares is_legal looks at for a castling move landing on to.
legal_castle_squares(to) ==
    CASE to = G1 -> <<H1, F1>>
      [] to = G8 -> <<H8, F8>>
      [] to = C1 -> <<A1, D1>>
      [] to = C8 -> <<A8, D8>>

\* The en-passant test of Board::is_legal: TRUE when the move is refused
\* as a double pin.
legal_double_pin(b, mv) ==
    LET ep_square == Unwrap(b.state.ep_square)
        rank == RankOf(ep_square)
        king_sq == get_king_sq(b)
        them == Invert(b.state.side_to_move)
    IN king_sq \in rank
       /\ \E rook_sq \in get_bitboard(b, them, "Rook") \cap rank :
             /\ ep_square \in between(king_sq, rook_sq)
             /\ Cardinality(between(king_sq, rook_sq)) = 2

\* The last line of Board::is_legal.
legal_pin_rule(b, mv) ==
    mv.from \notin b.state.pinned \/ mv.to \in ray_mask(get_king_sq(b), mv.from)

\* Board::is_legal, of a move is_pseudo_legal accepted.
is_legal(b, mv) ==
    IF is_legal_aborts(b, mv) THEN FALSE
    ELSE IF is_castle(mv)
    THEN legal_can_castle(b, legal_castle_squares(mv.to)[1], legal_castle_squares(mv.to)[2])
    ELSE IF is_en_passant(mv) /\ legal_double_pin(b, mv) THEN FALSE
    ELSE legal_pin_rule(b, mv)

\* The closure can_castle of Board::is_pseudo_legal.
pseudo_can_castle(b, color, king_sq, rook_sq, mask) ==
    /\ get_piece(b, rook_sq) = Some(<<color, "Rook">>)
    /\ is_path_clear(b, king_sq, rook_sq)
    /\ mask \in b.state.castle_rights

\* The castling arm of Board::is_pseudo_legal.
pseudo_castle(b, color, mv) ==
    /\ b.state.checkers = {}
    /\ IF color = "White"
       THEN \/ mv.from = E1 /\ mv.to = G1 /\ pseudo_can_castle(b, color, E1, H1, "WhiteOO")
            \/ mv.from = E1 /\ mv.to = C1 /\ pseudo_can_castle(b, color, E1, A1, "WhiteOOO")
       ELSE \/ mv.from = E8 /\ mv.to = G8 /\ pseudo_can_castle(b, color, E8, H8, "BlackOO")
            \/ mv.from = E8 /\ mv.to = C8 /\ pseudo_can_castle(b, color, E8, A8, "BlackOOO")

\* The ordinary king move arm of Board::is_pseudo_legal.
pseudo_king(b, mv) == attackers_to(b, mv.to) = {} /\ mv.to \in king(mv.from)

\* The checkers arm without its arm for two checkers.
pseudo_check_rule_one(b, mv) ==
    Cardinality(b.state.checkers) = 1
    => mv.to \in between(get_king_sq(b), as_square_unchecked(b.state.checkers))
                  \cup b.state.checkers

\* The checkers arm of Board::is_pseudo_legal, of a move of a piece that
\* is not the king.
pseudo_check_rule(b, mv) ==
    LET n == Cardinality(b.state.checkers)
    IN IF n = 1
       THEN mv.to \in between(get_king_sq(b), as_square_unchecked(b.state.checkers))
                       \cup b.state.checkers
       ELSE n # 2

\* The pawn arm of Board::is_pseudo_legal.
pseudo_pawn(b, color, mv) ==
    IF is_en_passant(mv)
    THEN /\ b.state.ep_square # None
         /\ Unwrap(b.state.ep_square) = Sq(X(mv.to), Y(mv.from))
         /\ mv.to \in pawns(color, mv.from)
    ELSE /\ (Y(mv.to) = 0 \/ Y(mv.to) = 7 \/ ~is_promote(mv))
         /\ IF is_capture(mv) THEN mv.to \in pawns(color, mv.from)
            ELSE (IF is_double_push(mv) THEN pawn_double_push(color, mv.from)
                  ELSE pawn_push(color, mv.from)) = Some(mv.to)

\* The last arm of Board::is_pseudo_legal: rook, knight, bishop, queen.
pseudo_piece(b, piece, mv) ==
    /\ ~is_en_passant(mv) /\ ~is_double_push(mv) /\ ~is_promote(mv)
    /\ mv.to \in attacks_of(b.state.side_to_move, piece, mv.from, b.occ.all)

\* Board::is_pseudo_legal
is_pseudo_legal(b, mv) ==
    /\ get_piece(b, mv.from) # None
    /\ LET color == Unwrap(get_piece(b, mv.from))[1]
           piece == Unwrap(get_piece(b, mv.from))[2]
           target == get_piece(b, mv.to)
       IN /\ color = b.state.side_to_move
          /\ IF target # None
             THEN /\ is_capture(mv)
                  /\ Unwrap(target)[1] # b.state.side_to_move
                  /\ Unwrap(target)[2] = get_capture(mv)
             ELSE ~is_capture(mv)
          /\ IF piece = "King"
             THEN IF is_castle(mv) THEN pseudo_castle(b, color, mv) ELSE pseudo_king(b, mv)
             ELSE /\ ~is_castle(mv)
                  /\ pseudo_check_rule(b, mv)
                  /\ IF piece = "Pawn" THEN pseudo_pawn(b, color, mv)
                     ELSE pseudo_piece(b, piece, mv)

\* The rook's squares <<home, castled>> of the castling move landing on to.
castle_rook_squares(to) ==
    CASE to = G1 -> <<H1, F1>>
      [] to = G8 -> <<H8, F8>>
      [] to = C1 -> <<A1, D1>>
      [] to = C8 -> <<A8, D8>>

\* The value of a do_move that forgets the test of the pawn.
do_move_result_quiet(b, mv) == get_piece(b, mv.from) # None /\ is_quiet(mv)

\* The value do_move returns: Board::do_move, "let reversible = ...".
do_move_result(b, mv) ==
    /\ get_piece(b, mv.from) # None
    /\ is_quiet(mv)
    /\ Unwrap(get_piece(b, mv.from))[2] # "Pawn"

\* Board::do_move's first lines without the push on the history.
do_move_push_nothing(b) ==
    [b EXCEPT !.fullmove = IF b.state.side_to_move = "Black" THEN (@ + 1) % 65536 ELSE @,
              !.state.side_to_move = Invert(@)]

\* Board::do_move, its first lines: the state is pushed on the history, the
\* fullmove counter counts Black's moves and the side to move is inverted.
do_move_push(b) ==
    [b EXCEPT !.prev_states = Append(@, b.state),
              !.fullmove = IF b.state.side_to_move = "Black" THEN (@ + 1) % 65536 ELSE @,
              !.state.side_to_move = Invert(@)]

\* The castle rights of a do_move that looks at the origin only.
do_move_castle_rights_origin(rights, mv) == castle_update(rights, mv.from, mv.from)

\* Board::do_move, "Update castling rights".
do_move_castle_rights(rights, mv) == castle_update(rights, mv.from, mv.to)

\* The en passant square of a do_move that sets it after every pawn push.
do_move_ep_square_any_push(mv) ==
    IF is_double_push(mv) \/ (is_quiet(mv) /\ X(mv.from) = X(mv.to) /\ Y(mv.from) # Y(mv.to))
    THEN Some(mv.to) ELSE None

\* Board::do_move, "... and en passant square".
do_move_ep_square(mv) == IF is_double_push(mv) THEN Some(mv.to) ELSE None

\* Board::do_move, "Update the halfmove clock": halfmove is a u8.
do_move_halfmove(halfmove, reversible) == IF reversible THEN (halfmove + 1) % 256 ELSE 0

\* Board::do_move, up to the placing of the piece on its destination.
do_move_pieces(b, mv) ==
    LET pushed == do_move_push(b)
        lifted == remove_piece(pushed, TRUE, mv.from)
    IN IF lifted.panic THEN lifted
       ELSE LET color == Unwrap(get_piece(b, mv.from))[1]
                piece == Unwrap(get_piece(b, mv.from))[2]
            IN IF is_castle(mv)
               THEN IF mv.to \in {G1, G8, C1, C8}
                    THEN place_piece(displace_piece(lifted, TRUE, castle_rook_squares(mv.to)[1],
                                                    castle_rook_squares(mv.to)[2]),
                                     TRUE, color, piece, mv.to)
                    ELSE Panic(lifted)
               ELSE IF is_en_passant(mv)
               THEN IF lifted.state.ep_square = None THEN Panic(lifted)
                    ELSE place_piece(remove_piece(lifted, TRUE, Unwrap(lifted.state.ep_square)),
                                     TRUE, color, piece, mv.to)
               ELSE place_piece(IF is_capture(mv) THEN remove_piece(lifted, TRUE, mv.to) ELSE lifted,
                                TRUE, color,
                                IF is_promote(mv) THEN get_promote(mv) ELSE piece, mv.to)

\* Board::do_move
do_move(b, mv) ==
    LET placed == do_move_pieces(b, mv)
    IN IF placed.panic THEN placed
       ELSE IF get_bitboard(placed, placed.state.side_to_move, "King") = {} THEN Panic(placed)
       ELSE [placed EXCEPT
                !.state.checkers = checkers(placed),
                !.state.pinned = pinned(placed),
                !.state.castle_rights = do_move_castle_rights(@, mv),
                !.state.ep_square = do_move_ep_square(mv),
                !.state.halfmove = do_move_halfmove(@, do_move_result(b, mv)),
                !.state.zobrist = ZNot(@)]

\* Board::undo_move
undo_move(b, mv) ==
    IF b.prev_states = <<>> THEN Panic(b)
    ELSE
    LET them == b.state.side_to_move
        last == b.prev_states[Len(b.prev_states)]
        popped == [b EXCEPT !.state = last,
                            !.prev_states = SubSeq(@, 1, Len(@) - 1),
                            !.fullmove = IF last.side_to_move = "Black"
                                         THEN (@ + 65535) % 65536 ELSE @]
        lifted == remove_piece(popped, FALSE, mv.to)
    IN IF lifted.panic THEN lifted
       ELSE LET color == Unwrap(get_piece(b, mv.to))[1]
                piece == Unwrap(get_piece(b, mv.to))[2]
            IN IF is_castle(mv)
               THEN IF mv.to \in {G1, G8, C1, C8}
                    THEN place_piece(displace_piece(lifted, TRUE, castle_rook_squares(mv.to)[2],
                                                    castle_rook_squares(mv.to)[1]),
                                     FALSE, color, piece, mv.from)
                    ELSE Panic(lifted)
               ELSE IF is_en_passant(mv)
               THEN IF lifted.state.ep_square = None THEN Panic(lifted)
                    ELSE place_piece(place_piece(lifted, FALSE, them, "Pawn",
                                                 Unwrap(lifted.state.ep_square)),
                                     FALSE, color, piece, mv.from)
               ELSE place_piece(IF is_capture(mv)
                                THEN place_piece(lifted, FALSE, them, get_capture(mv), mv.to)
                                ELSE lifted,
                                FALSE, color,
                                IF is_promote(mv) THEN "Pawn" ELSE piece, mv.from)

\* Board::clear_history that also resets the halfmove clock.
clear_history_and_clock(b) == [b EXCEPT !.prev_states = <<>>, !.state.halfmove = 0]

\* Board::clear_history
clear_history(b) == [b EXCEPT !.prev_states = <<>>]

(***************************************************************************)
(* Text: a string is a sequence of characters (one-character strings).     *)
(* The conversions of the modules that are not at hand follow the FEN      *)
(* notation of specification 6.                                            *)
(***************************************************************************)
DigitChars == <<"0", "1", "2", "3", "4", "5", "6", "7", "8", "9">>

FileChars == <<"a", "b", "c", "d", "e", "f", "g", "h">>

\* The position of c in the sequence chars, from 0; -1 when absent.
IndexOf(chars, c) ==
    IF \E i \in 1..Len(chars) : chars[i] = c
    THEN (CHOOSE i \in 1..Len(chars) : chars[i] = c) - 1
    ELSE -1

\* str::split
RECURSIVE SplitFrom(_, _, _, _)
SplitFrom(s, sep, i, cur) ==
    IF i > Len(s) THEN <<cur>>
    ELSE IF s[i] = sep THEN <<cur>> \o SplitFrom(s, sep, i + 1, <<>>)
    ELSE SplitFrom(s, sep, i + 1, Append(cur, s[i]))

Split(s, sep) == SplitFrom(s, sep, 1, <<>>)

\* The decimal value of a sequence of digits.
RECURSIVE DigitsValue(_)
DigitsValue(s) ==
    IF s = <<>> THEN 0
    ELSE 10 * DigitsValue(SubSeq(s, 1, Len(s) - 1)) + IndexOf(DigitChars, s[Len(s)])

\* u8::from_str, u16::from_str: a decimal numeral no greater than max.
ParseUnsigned(s, max) ==
    IF s = <<>> \/ Len(s) > 5 \/ \E i \in 1..Len(s) : IndexOf(DigitChars, s[i]) < 0 THEN Err
    ELSE IF DigitsValue(s) > max THEN Err
    ELSE Ok(DigitsValue(s))

\* The decimal numeral of n, as "{}" prints an integer.
RECURSIVE ToDecimal(_)
ToDecimal(n) ==
    IF n < 10 THEN <<DigitChars[n + 1]>>
    ELSE Append(ToDecimal(n \div 10), DigitChars[(n % 10) + 1])

\* Square::from_str
square_from_str(s) ==
    IF Len(s) # 2 \/ IndexOf(FileChars, s[1]) < 0
       \/ IndexOf(DigitChars, s[2]) < 1 \/ IndexOf(DigitChars, s[2]) > 8
    THEN Err
    ELSE Ok(Sq(IndexOf(FileChars, s[1]), IndexOf(DigitChars, s[2]) - 1))

\* Display of a Square
square_to_string(sq) == <<FileChars[X(sq) + 1], DigitChars[Y(sq) + 2]>>

\* Color::from_str
color_from_str(s) ==
    IF s = <<"w">> THEN Ok("White") ELSE IF s = <<"b">> THEN Ok("Black") ELSE Err

\* Display of a Color
color_to_string(c) == IF c = "White" THEN <<"w">> ELSE <<"b">>

PieceChars == <<"p", "r", "n", "b", "q", "k">>

WhitePieceChars == <<"P", "R", "N", "B", "Q", "K">>

PieceOrder == <<"Pawn", "Rook", "Knight", "Bishop", "Queen", "King">>

\* Piece::from_char
piece_from_char(c) ==
    IF IndexOf(PieceChars, c) >= 0 THEN Ok(<<"Black", PieceOrder[IndexOf(PieceChars, c) + 1]>>)
    ELSE IF IndexOf(WhitePieceChars, c) >= 0
    THEN Ok(<<"White", PieceOrder[IndexOf(WhitePieceChars, c) + 1]>>)
    ELSE Err

\* Display of a piece of that color: piece.to_string(), in upper case for White.
piece_to_char(color, piece) ==
    IF color = "White" THEN WhitePieceChars[IndexOf(PieceOrder, piece) + 1]
    ELSE PieceChars[IndexOf(PieceOrder, piece) + 1]

CastleChars == <<"K", "Q", "k", "q">>

CastleOrder == <<"WhiteOO", "WhiteOOO", "BlackOO", "BlackOOO">>

\* CastleRights::from_str
castle_from_str(s) ==
    IF s = <<"-">> THEN Ok({})
    ELSE IF s = <<>> \/ \E i \in 1..Len(s) : IndexOf(CastleChars, s[i]) < 0 THEN Err
    ELSE Ok({CastleOrder[IndexOf(CastleChars, s[i]) + 1] : i \in 1..Len(s)})

\* Display of CastleRights
castle_to_string(rights) ==
    IF rights = {} THEN <<"-">>
    ELSE (IF "WhiteOO" \in rights THEN <<"K">> ELSE <<>>)
         \o (IF "WhiteOOO" \in rights THEN <<"Q">> ELSE <<>>)
         \o (IF "BlackOO" \in rights THEN <<"k">> ELSE <<>>)
         \o (IF "BlackOOO" \in rights THEN <<"q">> ELSE <<>>)

\* EnPassantSquare::from_str: the square the FEN names, or None for "-".
ep_from_str(s) ==
    IF s = <<"-">> THEN Ok(None)
    ELSE IF square_from_str(s).ok THEN Ok(Some(square_from_str(s).val))
    ELSE Err

\* Display of EnPassantSquare
ep_to_string(ep) == IF ep = None THEN <<"-">> ELSE square_to_string(Unwrap(ep))

(***************************************************************************)
(* FEN: Board::from_str and the Display of a Board.                        *)
(***************************************************************************)
\* The Board literal of Board::from_str, before any piece is placed.
NewBoard(side_to_move, castle_rights, ep_square, halfmove, fullmove) ==
    [fullmove |-> fullmove,
     bitboards |-> [c \in Colors |-> [p \in Pieces |-> EMPTY]],
     mailbox |-> [sq \in Squares |-> None],
     occ |-> [all |-> EMPTY, colored |-> [c \in Colors |-> EMPTY]],
     state |-> [side_to_move |-> side_to_move,
                halfmove |-> halfmove,
                checkers |-> EMPTY,
                pinned |-> EMPTY,
                castle_rights |-> castle_rights,
                ep_square |-> ep_square,
                zobrist |-> ZobristZero],
     prev_states |-> <<>>,
     panic |-> FALSE]

\* The loop over the characters of one rank in Board::from_str, from the
\* i-th character on, x being the file reached.  Square::from((x, y))
\* with x = 8 is the square after the end of the rank.
\* An error return of the rank loop: the local board b is dropped while
\* rank y is parsed.
ErrAt(b, y) == [ok |-> FALSE, val |-> b, rank |-> y]

RECURSIVE parse_rank(_, _, _, _, _)
parse_rank(b, rank, i, x, y) ==
    IF b.panic THEN Ok(b)
    ELSE IF i > Len(rank) THEN (IF x # 8 THEN ErrAt(b, y) ELSE Ok(b))
    ELSE IF IndexOf(DigitChars, rank[i]) >= 1 /\ IndexOf(DigitChars, rank[i]) <= 8
    THEN IF x + IndexOf(DigitChars, rank[i]) > 8 THEN ErrAt(b, y)
         ELSE parse_rank(b, rank, i + 1, x + IndexOf(DigitChars, rank[i]), y)
    ELSE IF ~piece_from_char(rank[i]).ok THEN ErrAt(b, y)
    ELSE LET cp == piece_from_char(rank[i]).val
             placed == IF Sq(x, y) \in Squares
                       THEN place_piece(b, TRUE, cp[1], cp[2], Sq(x, y))
                       ELSE Panic(b)
         IN IF x + 1 > 8 /\ ~placed.panic THEN ErrAt(placed, y)
            ELSE parse_rank(placed, rank, i + 1, x + 1, y)

\* The loop over the ranks in Board::from_str, from the i-th rank on.
RECURSIVE parse_ranks(_, _, _)
parse_ranks(b, ranks, i) ==
    IF i > Len(ranks) \/ b.panic THEN Ok(b)
    ELSE LET r == parse_rank(b, ranks[i], 1, 0, 8 - i)
         IN IF r.ok THEN parse_ranks(r.val, ranks, i + 1) ELSE r

\* Board::from_str: Err, or Ok of a board (whose panic flag tells that the
\* parser aborted).
from_str(s) ==
    LET split == Split(s, " ")
    IN IF Len(split) # 6 THEN Err
       ELSE LET side == color_from_str(split[2])
                rights == castle_from_str(split[3])
                ep == ep_from_str(split[4])
                halfmove == ParseUnsigned(split[5], 255)
                fullmove == ParseUnsigned(split[6], 65535)
                ranks == Split(split[1], "/")
            IN IF ~side.ok \/ ~rights.ok \/ ~ep.ok \/ ~halfmove.ok \/ ~fullmove.ok THEN Err
               ELSE IF Len(ranks) # 8 THEN Err
               ELSE LET r == parse_ranks(NewBoard(side.val, rights.val, ep.val,
                                                  halfmove.val, fullmove.val), ranks, 1)
                    IN IF ~r.ok THEN Err
                       ELSE IF r.val.panic THEN r
                       ELSE IF get_bitboard(r.val, r.val.state.side_to_move, "King") = {}
                       THEN Ok(Panic(r.val))
                       ELSE Ok([r.val EXCEPT !.state.checkers = checkers(r.val),
                                             !.state.pinned = pinned(r.val)])

\* One rank of the Display of a Board, from file x on, streak empty
\* squares being pending.
RECURSIVE fmt_rank(_, _, _, _)
fmt_rank(b, y, x, streak) ==
    LET flush == IF streak # 0 THEN <<DigitChars[streak + 1]>> ELSE <<>>
    IN IF x > 7 THEN flush
       ELSE IF get_piece(b, Sq(x, y)) # None
       THEN flush \o <<piece_to_char(Unwrap(get_piece(b, Sq(x, y)))[1],
                                     Unwrap(get_piece(b, Sq(x, y)))[2])>>
            \o fmt_rank(b, y, x + 1, 0)
       ELSE fmt_rank(b, y, x + 1, streak + 1)

\* The ranks of the Display of a Board, from rank y down.
RECURSIVE fmt_ranks(_, _)
fmt_ranks(b, y) ==
    IF y = 0 THEN fmt_rank(b, 0, 0, 0)
    ELSE fmt_rank(b, y, 0, 0) \o <<"/">> \o fmt_ranks(b, y - 1)

\* impl fmt::Display for Board: the FEN of the board.
to_fen(b) ==
    fmt_ranks(b, 7)
    \o <<" ">> \o color_to_string(b.state.side_to_move)
    \o <<" ">> \o castle_to_string(b.state.castle_rights)
    \o <<" ">> \o ep_to_string(b.state.ep_square)
    \o <<" ">> \o ToDecimal(b.state.halfmove)
    \o <<" ">> \o ToDecimal(b.fullmove)

(***************************************************************************)
(* The move generator of move_gen.rs.  It is written against accessors of  *)
(* the position that are not at hand; they are modelled from               *)
(* specification 4.3 and 4.6 on the Board above.                            *)
(***************************************************************************)
RECURSIVE Concat(_)
Concat(seqs) == IF seqs = <<>> THEN <<>> ELSE Head(seqs) \o Concat(Tail(seqs))

\* The set of the elements of a sequence.
Range(seq) == {seq[i] : i \in 1..Len(seq)}

\* board.get_defend_unchecked: the squares the piece standing on sq attacks.
get_defend_unchecked(b, sq) ==
    attacks_of(Unwrap(get_piece(b, sq))[1], Unwrap(get_piece(b, sq))[2], sq, b.occ.all)

\* board.get_attacks: the pieces attacking sq.
get_attacks(b, sq) == {s \in b.occ.all : sq \in get_defend_unchecked(b, s)}

\* board.get_piece_unchecked(sq).is_slider()
is_slider(b, sq) == Unwrap(get_piece(b, sq))[2] \in {"Rook", "Bishop", "Queen"}

\* get_projected_mask: the ray leaving a towards b, up to the edge of the
\* board.
get_projected_mask(a, c) ==
    IF Aligned(a, c)
    THEN {s \in ray_mask(a, c) : s # a /\ Sign(X(s) - X(a)) = Sign(X(c) - X(a))
                                        /\ Sign(Y(s) - Y(a)) = Sign(Y(c) - Y(a))}
    ELSE {c}

\* squares_between
squares_between(a, c) == between(a, c)

\* get_pinned (specification 4.3)
get_pinned(color, b) ==
    LET them == Invert(color)
        king_sq == as_square_unchecked(get_bitboard(b, color, "King"))
        queens == get_bitboard(b, them, "Queen")
        lines == {between_straight(king_sq, sq) : sq \in get_bitboard(b, them, "Rook") \cup queens}
                 \cup {between_diagonal(king_sq, sq) : sq \in get_bitboard(b, them, "Bishop") \cup queens}
    IN UNION {l \cap b.occ.colored[color] : l \in {m \in lines : Cardinality(m \cap b.occ.all) = 1}}

\* Square::is_last_rank
is_last_rank(color, sq) == Y(sq) = (IF color = "White" THEN 7 ELSE 0)

\* CastleRights::get_availability (specification 4.6, 1): the castling
\* moves of that color whose right is held, whose path is empty and whose
\* transit squares are not attacked.
get_availability(b, color, danger) ==
    LET y == IF color = "White" THEN 0 ELSE 7
        king_side == /\ (IF color = "White" THEN "WhiteOO" ELSE "BlackOO") \in b.state.castle_rights
                     /\ between(Sq(4, y), Sq(7, y)) \cap b.occ.all = {}
                     /\ {Sq(5, y), Sq(6, y)} \cap danger = {}
        queen_side == /\ (IF color = "White" THEN "WhiteOOO" ELSE "BlackOOO") \in b.state.castle_rights
                      /\ between(Sq(4, y), Sq(0, y)) \cap b.occ.all = {}
                      /\ {Sq(3, y), Sq(2, y)} \cap danger = {}
    IN (IF king_side THEN <<castle(Sq(4, y), Sq(6, y))>> ELSE <<>>)
       \o (IF queen_side THEN <<castle(Sq(4, y), Sq(2, y))>> ELSE <<>>)

\* EnPassantAvailability::get (specification 4.6, 5): our pawns standing
\* left and right of the double-pushed pawn on to, left first, unless
\* taking it uncovers our king on that rank.
en_passant_availability(b, color, color_inv, to, king_sq) ==
    LET ours == get_bitboard(b, color, "Pawn")
        sides == (IF X(to) > 0 /\ (to - 1) \in ours THEN <<to - 1>> ELSE <<>>)
                 \o (IF X(to) < 7 /\ (to + 1) \in ours THEN <<to + 1>> ELSE <<>>)
        uncovers(from) ==
            /\ Y(king_sq) = Y(to)
            /\ \E s \in (get_bitboard(b, color_inv, "Rook") \cup get_bitboard(b, color_inv, "Queen"))
                        \cap RankOf(to) :
                  /\ from \in between(king_sq, s)
                  /\ between(king_sq, s) \cap b.occ.all = {from, to}
    IN SelectSeq(sides, LAMBDA from : ~uncovers(from))

\* The promotion pieces in another order.
PROMOTIONS_knight_first == <<"Knight", "Rook", "Bishop", "Queen">>

\* PROMOTIONS
PROMOTIONS == <<"Queen", "Rook", "Bishop", "Knight">>

\* The values legals() computes before it yields anything.
gen_context(b) ==
    LET color == b.state.side_to_move
        color_inv == Invert(color)
        them == b.occ.colored[color_inv]
        king_sq == as_square_unchecked(get_bitboard(b, color, "King"))
    IN [color |-> color,
        color_inv |-> color_inv,
        them |-> them,
        free |-> FULL \ b.occ.all,
        king_sq |-> king_sq,
        king_attacks |-> get_attacks(b, king_sq) \cap them,
        danger |-> UNION {get_defend_unchecked(b, sq) : sq \in them},
        pinned |-> get_pinned(color, b)]

\* The macro king_danger!()
king_danger(b, g) ==
    g.danger \cup UNION {IF is_slider(b, checker_sq)
                         THEN get_projected_mask(checker_sq, g.king_sq) ELSE EMPTY :
                         checker_sq \in g.king_attacks}

\* pin!(from) of a generator that takes no piece for pinned.
pin_unpinned(g, from) == FULL

\* The macro pin!(from)
pin(g, from) == IF from \in g.pinned THEN get_projected_mask(g.king_sq, from) ELSE FULL

\* check_mask, with no or one checker
gen_check_mask(g) ==
    IF g.king_attacks = {} THEN FULL
    ELSE squares_between(g.king_sq, as_square_unchecked(g.king_attacks))
         \cup {as_square_unchecked(g.king_attacks)}

\* "No checkers: may castle"
gen_castles(b, g) == get_availability(b, g.color, g.danger)

\* "Pawn captures and promote-captures", of the pawn on from
gen_pawn_captures_from(b, g, mask, from) ==
    LET defend == get_defend_unchecked(b, from) \cap mask \cap pin(g, from)
        tos == iter_squares(defend)
    IN IF \E s \in defend : is_last_rank(g.color, s)
       THEN Concat([i \in 1..Len(tos) |->
                [j \in 1..Len(PROMOTIONS) |->
                    promote_capture(from, tos[i], Unwrap(get_piece(b, tos[i]))[2], PROMOTIONS[j])]])
       ELSE [i \in 1..Len(tos) |-> capture(from, tos[i], Unwrap(get_piece(b, tos[i]))[2])]

gen_pawn_captures(b, g, mask) ==
    LET froms == iter_squares(get_bitboard(b, g.color, "Pawn"))
    IN Concat([i \in 1..Len(froms) |-> gen_pawn_captures_from(b, g, mask, froms[i])])

\* The captures of the piece on from onto the squares of defend
gen_captures_from(b, from, defend) ==
    LET tos == iter_squares(defend)
    IN [i \in 1..Len(tos) |-> capture(from, tos[i], Unwrap(get_piece(b, tos[i]))[2])]

\* The quiet moves of the piece on from onto the squares of defend
gen_quiets_from(from, defend) ==
    LET tos == iter_squares(defend)
    IN [i \in 1..Len(tos) |-> quiet(from, tos[i])]

\* "Rook, Bishop, Knight and Queen captures"
gen_piece_captures(b, g, mask) ==
    LET froms == iter_squares(get_bitboard(b, g.color, "Knight") \cup get_bitboard(b, g.color, "Bishop")
                              \cup get_bitboard(b, g.color, "Rook") \cup get_bitboard(b, g.color, "Queen"))
    IN Concat([i \in 1..Len(froms) |->
            gen_captures_from(b, froms[i],
                get_defend_unchecked(b, froms[i]) \cap mask \cap pin(g, froms[i]))])

\* "The defend bitboard of the king"
king_defend(b, g) == get_defend_unchecked(b, g.king_sq) \ king_danger(b, g)

\* "King captures"
gen_king_captures(b, g) == gen_captures_from(b, g.king_sq, king_defend(b, g) \cap g.them)

\* "King quiets"
gen_king_quiets(b, g) == gen_quiets_from(g.king_sq, king_defend(b, g) \cap g.free)

\* "En passant"
gen_en_passant(b, g, check_mask) ==
    IF b.state.ep_square = None THEN <<>>
    ELSE LET mid == Unwrap(b.state.ep_square)
             to == IF g.color_inv = "White" THEN Sq(X(mid), 3) ELSE Sq(X(mid), 4)
             mask == IF to \in check_mask THEN FULL ELSE check_mask
         IN IF to \in g.pinned THEN <<>>
            ELSE LET froms == SelectSeq(en_passant_availability(b, g.color, g.color_inv, to, g.king_sq),
                                        LAMBDA from : mid \in (mask \cap pin(g, from)))
                 IN [i \in 1..Len(froms) |-> en_passant(froms[i], mid)]

\* The pushes of the pawn on from, the double push first.
gen_pawn_quiets_from_double_first(b, g, mask0, from) ==
    LET mask == mask0 \cap pin(g, from)
        single == pawn_push(g.color, from)
        double == pawn_double_push(g.color, from)
    IN IF single = None THEN <<>>
       ELSE (IF double # None /\ Unwrap(double) \in mask /\ get_piece(b, Unwrap(single)) = None
             THEN <<double_push(from, Unwrap(double))>>
             ELSE <<>>)
            \o (IF Unwrap(single) \in mask
                THEN IF is_last_rank(g.color, Unwrap(single))
                     THEN [j \in 1..Len(PROMOTIONS) |-> promote(from, Unwrap(single), PROMOTIONS[j])]
                     ELSE <<quiet(from, Unwrap(single))>>
                ELSE <<>>)

\* "Pawn quiets and double pushes", of the pawn on from
gen_pawn_quiets_from(b, g, mask0, from) ==
    LET mask == mask0 \cap pin(g, from)
        single == pawn_push(g.color, from)
        double == pawn_double_push(g.color, from)
    IN IF single = None THEN <<>>
       ELSE (IF Unwrap(single) \in mask
             THEN IF is_last_rank(g.color, Unwrap(single))
                  THEN [j \in 1..Len(PROMOTIONS) |-> promote(from, Unwrap(single), PROMOTIONS[j])]
                  ELSE <<quiet(from, Unwrap(single))>>
             ELSE <<>>)
            \o (IF double # None /\ Unwrap(double) \in mask /\ get_piece(b, Unwrap(single)) = None
                THEN <<double_push(from, Unwrap(double))>>
                ELSE <<>>)

gen_pawn_quiets(b, g, mask) ==
    LET froms == iter_squares(get_bitboard(b, g.color, "Pawn"))
    IN Concat([i \in 1..Len(froms) |-> gen_pawn_quiets_from(b, g, mask, froms[i])])

\* "Rook, Bishop, Knight and Queen quiets"
gen_piece_quiets(b, g, mask) ==
    LET froms == iter_squares(get_bitboard(b, g.color, "Rook") \cup get_bitboard(b, g.color, "Bishop")
                              \cup get_bitboard(b, g.color, "Knight") \cup get_bitboard(b, g.color, "Queen"))
    IN Concat([i \in 1..Len(froms) |->
            gen_quiets_from(froms[i],
                get_defend_unchecked(b, froms[i]) \cap mask \cap pin(g, froms[i]))])

\* Game::legals: the moves the generator yields before the none sentinel,
\* in order.
legals(b) ==
    LET g == gen_context(b)
        check_mask == gen_check_mask(g)
    IN IF Cardinality(g.king_attacks) = 2
       THEN gen_king_captures(b, g) \o gen_king_quiets(b, g)
       ELSE (IF g.king_attacks = {} THEN gen_castles(b, g) ELSE <<>>)
            \o gen_pawn_captures(b, g, check_mask \cap g.them)
            \o gen_piece_captures(b, g, check_mask \cap g.them)
            \o gen_king_captures(b, g)
            \o gen_en_passant(b, g, check_mask)
            \o gen_pawn_quiets(b, g, check_mask \cap g.free)
            \o gen_piece_quiets(b, g, check_mask \cap g.free)
            \o gen_king_quiets(b, g)

\* Game::legals reaches the arm `_ => unreachable!()` of the match on the
\* number of checkers, before it yields anything.
legals_unreachable(b) == Cardinality(gen_context(b).king_attacks) > 2

(***************************************************************************)
(* The transposition table of the engine (table.rs).                      *)
(***************************************************************************)
\* SIZE, the number of buckets, scaled down.
SIZE == 2

\* NodeFlag as u8
Alpha == 0
Beta == 1
Exact == 2

\* The ages, depths and flags of the entries inserted, <<age, depth, flag>>:
\* the smallest values, two ways to the same sum, and the largest values
\* of a u16 and a u8.
EntryRanks == {<<0, 0, Alpha>>, <<0, 0, Beta>>, <<0, 1, Alpha>>, <<65535, 255, Exact>>}

\* Entry::new, of two encoded moves; the score takes no part in insert.
Entries ==
    {[mv |-> m, score |-> 0, age |-> r[1], depth |-> r[2], flag |-> r[3]] :
        m \in {1, 2}, r \in EntryRanks}

\* The Zobrist keys of the calls: each bucket is the index of two keys.
Zobrists == 0..(2 * SIZE - 1)

\* Zobrist::index::<SIZE>
index(z) == z % SIZE

\* replace_score of Table::insert: a sum of i32 values cast from u8 and
\* u16 fields, between -65792 and 65792, which an i32 holds.
replace_score(entry, prev) ==
    entry.depth - prev.depth + entry.age - prev.age + entry.flag - prev.flag

\* Table::get
get(bk, z) == bk[index(z)]

\* Table::insert that keeps the entry in place on equal scores.
insert_keep_ties(bk, z, entry) ==
    IF bk[index(z)] # None /\ replace_score(entry, Unwrap(bk[index(z)])) <= 0
    THEN bk
    ELSE [bk EXCEPT ![index(z)] = Some(entry)]

\* Table::insert
insert(bk, z, entry) ==
    IF bk[index(z)] # None /\ replace_score(entry, Unwrap(bk[index(z)])) < 0
    THEN bk
    ELSE [bk EXCEPT ![index(z)] = Some(entry)]

(***************************************************************************)
(* The positions the boards are built from.                                *)
(***************************************************************************)
\* 4k3/8/8/8/8/8/6r1/4K2R w K - 0 1
FenCastleK ==
    <<"4", "k", "3", "/", "8", "/", "8", "/", "8", "/", "8", "/", "8", "/",
      "6", "r", "1", "/", "4", "K", "2", "R", " ", "w", " ", "K", " ", "-",
      " ", "0", " ", "1">>

\* 4k2r/8/8/8/8/8/8/R3K3 w Qk - 0 1
FenCastleBoth ==
    <<"4", "k", "2", "r", "/", "8", "/", "8", "/", "8", "/", "8", "/", "8",
      "/", "8", "/", "R", "3", "K", "3", " ", "w", " ", "Q", "k", " ", "-",
      " ", "0", " ", "1">>

\* 4k3/8/8/8/3pP3/8/8/4K3 b - e3 0 1
FenEnPassant ==
    <<"4", "k", "3", "/", "8", "/", "8", "/", "8", "/", "3", "p", "P", "3",
      "/", "8", "/", "8", "/", "4", "K", "3", " ", "b", " ", "-", " ", "e",
      "3", " ", "0", " ", "1">>

\* 4k3/8/8/8/3p4/8/4P3/4K3 w - - 0 1
FenDoublePush ==
    <<"4", "k", "3", "/", "8", "/", "8", "/", "8", "/", "3", "p", "4", "/",
      "8", "/", "4", "P", "3", "/", "4", "K", "3", " ", "w", " ", "-", " ",
      "-", " ", "0", " ", "1">>

\* 8/8/8/8/k2p3R/8/4P3/4K3 w - - 0 1
FenRankPin ==
    <<"8", "/", "8", "/", "8", "/", "8", "/", "k", "2", "p", "3", "R", "/",
      "8", "/", "4", "P", "3", "/", "4", "K", "3", " ", "w", " ", "-", " ",
      "-", " ", "0", " ", "1">>

\* 3n4/4P2k/8/8/8/8/8/4K3 w - - 0 1
FenPromote ==
    <<"3", "n", "4", "/", "4", "P", "2", "k", "/", "8", "/", "8", "/", "8",
      "/", "8", "/", "8", "/", "4", "K", "3", " ", "w", " ", "-", " ", "-",
      " ", "0", " ", "1">>

\* 4k3/8/8/8/8/5n2/R3r3/4K3 w - - 0 1
FenDoubleCheck ==
    <<"4", "k", "3", "/", "8", "/", "8", "/", "8", "/", "8", "/", "5", "n",
      "2", "/", "R", "3", "r", "3", "/", "4", "K", "3", " ", "w", " ", "-",
      " ", "-", " ", "0", " ", "1">>

\* 4k3/8/8/8/8/4n3/4P3/4K3 w - - 0 1
FenBlocked ==
    <<"4", "k", "3", "/", "8", "/", "8", "/", "8", "/", "8", "/", "4", "n",
      "3", "/", "4", "P", "3", "/", "4", "K", "3", " ", "w", " ", "-", " ",
      "-", " ", "0", " ", "1">>

\* 4k3/8/8/8/4N3/8/8/4RK2 w - - 0 1
FenDiscovered ==
    <<"4", "k", "3", "/", "8", "/", "8", "/", "8", "/", "4", "N", "3", "/",
      "8", "/", "8", "/", "4", "R", "K", "2", " ", "w", " ", "-", " ", "-",
      " ", "0", " ", "1">>

\* r3k3/8/8/8/8/8/8/R3K3 w Qq - 0 1
FenRookHomes ==
    <<"r", "3", "k", "3", "/", "8", "/", "8", "/", "8", "/", "8", "/", "8",
      "/", "8", "/", "R", "3", "K", "3", " ", "w", " ", "Q", "q", " ", "-",
      " ", "0", " ", "1">>

\* 7k/8/8/8/8/8/8/K7 w - - 255 1
FenHalfmoveFull ==
    <<"7", "k", "/", "8", "/", "8", "/", "8", "/", "8", "/", "8", "/", "8",
      "/", "K", "7", " ", "w", " ", "-", " ", "-", " ", "2", "5", "5", " ", "1">>

\* rnbqkbnr/pppppppp/8/8/8/8/PPPPPPPP/RNBQKBNR w KQkq - 0 1
FenStart ==
    <<"r", "n", "b", "q", "k", "b", "n", "r", "/", "p", "p", "p", "p", "p", "p", "p", "p",
      "/", "8", "/", "8", "/", "8", "/", "8", "/",
      "P", "P", "P", "P", "P", "P", "P", "P", "/", "R", "N", "B", "Q", "K", "B", "N", "R",
      " ", "w", " ", "K", "Q", "k", "q", " ", "-", " ", "0", " ", "1">>

\* 7k/8/8/8/8/8/8/K7 w - - 0 1
FenKings ==
    <<"7", "k", "/", "8", "/", "8", "/", "8", "/", "8", "/", "8", "/", "8",
      "/", "K", "7", " ", "w", " ", "-", " ", "-", " ", "0", " ", "1">>

\* 7k/8/8/8/8/8/8/K7 w - - 4 1
FenKingsClock ==
    <<"7", "k", "/", "8", "/", "8", "/", "8", "/", "8", "/", "8", "/", "8",
      "/", "K", "7", " ", "w", " ", "-", " ", "-", " ", "4", " ", "1">>

\* The positions of two kings, on which lines of MaxLine moves are played.
RepetitionFens == {FenKings, FenKingsClock}

\* 8/8/8/5k2/3p4/8/4P3/4K3 w - - 0 1
FenPawnCheck ==
    <<"8", "/", "8", "/", "8", "/", "5", "k", "2", "/", "3", "p", "4", "/",
      "8", "/", "4", "P", "3", "/", "4", "K", "3", " ", "w", " ", "-", " ",
      "-", " ", "0", " ", "1">>

\* 4k3/8/8/8/8/3n1n2/4r3/4K3 w - - 0 1
FenTripleCheck ==
    <<"4", "k", "3", "/", "8", "/", "8", "/", "8", "/", "8", "/", "3", "n",
      "1", "n", "2", "/", "4", "r", "3", "/", "4", "K", "3", " ", "w", " ",
      "-", " ", "-", " ", "0", " ", "1">>

\* The positions the generators are run on.
GeneratorFens ==
    {FenCastleBoth, FenEnPassant, FenPromote, FenDoubleCheck, FenPawnCheck, FenTripleCheck}

StartFens ==
    {FenCastleK, FenCastleBoth, FenEnPassant, FenDoublePush,
     FenRankPin, FenPromote, FenDoubleCheck, FenBlocked, FenDiscovered,
     FenRookHomes, FenHalfmoveFull, FenStart, FenPawnCheck}

\* The number of moves applied and not undone on top of a parsed position.
MaxPly == 1

\* The number of calls of Table::insert in one run.
MaxInserts == 2

\* The number of calls of undo_move in one run.
MaxUndo == 1

\* The number of moves applied on top of a position of two kings.
MaxLine == 3

\* The number of calls of init() one thread makes.
MaxCalls == 2

(***************************************************************************)
(* The state: the fields of the Board, whether an operation on it          *)
(* aborted, and what its caller holds: the FEN it was parsed from, the     *)
(* moves applied and not undone (undo_move is given the move back), the    *)
(* number of moves undone and the value the last do_move returned.         *)
(***************************************************************************)
VARIABLES fullmove, bitboards, mailbox, occ, state, prev_states, panic, fen, moves, undone, ret

\* What Board::from_str returned for fen: "none" before the call, "ok",
\* "err", or "panic" when the parser aborted.
VARIABLE parsed

\* init(): its static DONE, the position of each thread inside init(), the
\* number of runs of each sub-initializer and the number of calls each
\* thread has made.
VARIABLES DONE, pc, inits, calls

\* The last text given to Board::parse_move with its answer, <<>> before
\* the first call.
VARIABLE asked

\* The number of moves that were applied when clear_history was last
\* called, 0 before.
VARIABLE cleared

\* What the call of test_upcoming_repetition of this run returned: "none"
\* before the call, "true", "false", or "abort".
VARIABLE upcoming

\* The generators made by legals() on the current board: the moves each has
\* yielded, and "fresh" before its first next(), "running", "done" once
\* next() returned Move::None, "abort" once next() panicked.
VARIABLE gens

\* TABLE.buckets, the global hashtable of the engine.
VARIABLE buckets

\* The calls Table::insert(zobrist, entry) made so far, as <<zobrist, entry>>.
VARIABLE inserts

table == <<buckets, inserts>>

\* static mut TABLE: every bucket None, and no call made.
TableEmpty == buckets = [i \in 0..(SIZE - 1) |-> None] /\ inserts = <<>>

lib == <<DONE, pc, inits, calls>>

\* Two generators are made on a board.
Generators == {1, 2}

FreshGens == [g \in Generators |-> [out |-> <<>>, state |-> "fresh"]]

vars == <<fullmove, bitboards, mailbox, occ, state, prev_states, panic, fen, moves, undone, ret,
          parsed, DONE, pc, inits, calls, asked, cleared, upcoming, gens, buckets, inserts>>

\* The Board of the current state.
Board ==
    [fullmove |-> fullmove, bitboards |-> bitboards, mailbox |-> mailbox, occ |-> occ,
     state |-> state, prev_states |-> prev_states, panic |-> panic]

\* The next state holds the board b.
SetBoard(b) ==
    /\ fullmove' = b.fullmove
    /\ bitboards' = b.bitboards
    /\ mailbox' = b.mailbox
    /\ occ' = b.occ
    /\ state' = b.state
    /\ prev_states' = b.prev_states
    /\ panic' = b.panic

\* The side to move has a king: get_king_sq reads a square.  With no king
\* it reads the lowest square of an empty bitboard, which is undefined;
\* the operations that need the king square are modelled as aborting.
KingPresent(b) == get_bitboard(b, b.state.side_to_move, "King") # {}

\* The moves Move's constructors build that pass the first tests of
\* is_pseudo_legal (a piece stands on from; the move captures exactly when
\* to is occupied, and then the piece standing there): is_pseudo_legal
\* refuses every other move.
MovesFromTo(b, from, to) ==
    IF get_piece(b, to) = None
    THEN {quiet(from, to), double_push(from, to), en_passant(from, to), castle(from, to)}
         \cup {promote(from, to, PROMOTIONS[j]) : j \in 1..Len(PROMOTIONS)}
    ELSE {capture(from, to, Unwrap(get_piece(b, to))[2])}
         \cup {promote_capture(from, to, Unwrap(get_piece(b, to))[2], PROMOTIONS[j]) :
                  j \in 1..Len(PROMOTIONS)}

MoveInputs(b) ==
    UNION {MovesFromTo(b, from, to) : from \in {s \in Squares : get_piece(b, s) # None},
                                      to \in Squares}

\* What parse_move and every careful caller test before do_move.
Accepts(b, mv) == is_pseudo_legal(b, mv) /\ is_legal(b, mv)

Accepted(b) == {mv \in MoveInputs(b) : Accepts(b, mv)}

\* The letter of a promotion in a move's text.
promote_to_char(piece) == piece_to_char("Black", piece)

\* Display of a Move: pure algebraic coordinate notation, the two squares
\* and the letter of the promotion.
move_to_string(mv) ==
    square_to_string(mv.from) \o square_to_string(mv.to)
    \o (IF is_promote(mv) THEN <<promote_to_char(get_promote(mv))>> ELSE <<>>)

\* The move Board::parse_move builds from four characters.
parse_move_plain(b, from, to) ==
    LET moving == get_piece(b, from)
        target == get_piece(b, to)
    IN IF moving # None /\ Unwrap(moving)[2] = "Pawn"
       THEN IF X(from) = X(to)
            THEN IF Abs(Y(to) - Y(from)) = 2 THEN double_push(from, to) ELSE quiet(from, to)
            ELSE IF target # None THEN capture(from, to, Unwrap(target)[2])
            ELSE en_passant(from, to)
       ELSE IF moving # None /\ Unwrap(moving)[2] = "King"
       THEN IF Abs(X(to) - X(from)) = 2 THEN castle(from, to)
            ELSE IF target # None THEN capture(from, to, Unwrap(target)[2])
            ELSE quiet(from, to)
       ELSE IF target # None THEN capture(from, to, Unwrap(target)[2])
            ELSE en_passant(from, to)

\* The move Board::parse_move builds from five characters.
parse_move_promote(b, from, to, piece) ==
    IF get_piece(b, to) # None
    THEN promote_capture(from, to, Unwrap(get_piece(b, to))[2], piece)
    ELSE promote(from, to, piece)

\* The piece a promotion letter names in Board::parse_move.
promote_from_char(c) ==
    IF c \in {"r", "n", "b", "q"} THEN Ok(Unwrap(Some(piece_from_char(c).val))[2]) ELSE Err

\* The number of bytes of a character in UTF-8: the texts of the model are
\* ASCII but for the two-byte letter e with an acute accent.
Utf8Len(c) == IF c = "é" THEN 2 ELSE 1

\* str::len: the number of bytes of the text.
RECURSIVE str_len(_)
str_len(s) == IF s = <<>> THEN 0 ELSE Utf8Len(s[1]) + str_len(Tail(s))

\* A call that aborts instead of returning.
Abort == [ok |-> FALSE, abort |-> TRUE]

\* &s[a..b]: the characters between the byte offsets a and b; it aborts
\* when an offset is past the end or inside a character.
str_slice(s, a, b) ==
    LET offset(k) == str_len(SubSeq(s, 1, k - 1))
        at(o) == {k \in 1..(Len(s) + 1) : offset(k) = o}
    IN IF at(a) = {} \/ at(b) = {} THEN Abort
       ELSE Ok(SubSeq(s, CHOOSE k \in at(a) : TRUE, (CHOOSE k \in at(b) : TRUE) - 1))

\* Board::parse_move
parse_move(b, s) ==
    IF str_len(s) \notin {4, 5} THEN Err
    ELSE IF ~str_slice(s, 0, 2).ok THEN Abort
    ELSE IF ~square_from_str(str_slice(s, 0, 2).val).ok THEN Err
    ELSE IF ~str_slice(s, 2, 4).ok THEN Abort
    ELSE IF ~square_from_str(str_slice(s, 2, 4).val).ok THEN Err
    ELSE LET from == square_from_str(str_slice(s, 0, 2).val)
             to == square_from_str(str_slice(s, 2, 4).val)
         IN IF str_len(s) = 5 /\ Len(s) < 5 THEN Abort
            ELSE IF str_len(s) = 5 /\ ~promote_from_char(s[5]).ok THEN Err
            ELSE LET mv == IF str_len(s) = 4 THEN parse_move_plain(b, from.val, to.val)
                           ELSE parse_move_promote(b, from.val, to.val,
                                                   promote_from_char(s[5]).val)
                 IN IF Accepts(b, mv) THEN Ok(mv) ELSE Err

\* cuckoo::is_hash_of_legal_move (specification 4.7): diff is the XOR of
\* the keys of the two squares of a reversible move of a piece that is not
\* a pawn with the side-to-move key, and that move is legal on b.
is_hash_of_legal_move(b, diff, legal) ==
    \E i \in 1..Len(legal) :
        /\ is_quiet(legal[i])
        /\ Unwrap(get_piece(b, legal[i].from))[2] # "Pawn"
        /\ diff = ZNot(ZXor(ZobristKey(b.state.side_to_move,
                                       Unwrap(get_piece(b, legal[i].from))[2], legal[i].from),
                            ZobristKey(b.state.side_to_move,
                                       Unwrap(get_piece(b, legal[i].from))[2], legal[i].to)))

\* The closure nth_zobrist of Board::test_upcoming_repetition, for n no
\* greater than the length of the history.
nth_zobrist(b, n) == b.prev_states[Len(b.prev_states) - n + 1].zobrist

\* The loop of Board::test_upcoming_repetition from offset d on; an
\* offset past the history aborts (the index underflows).
RECURSIVE repetition_scan(_, _, _, _)
repetition_scan(b, d, other, legal) ==
    IF d > b.state.halfmove THEN Ok(FALSE)
    ELSE IF d > Len(b.prev_states) THEN Abort
    ELSE LET next == ZXor(other, ZNot(ZXor(nth_zobrist(b, d - 1), nth_zobrist(b, d))))
         IN IF next # ZobristZero THEN repetition_scan(b, d + 2, next, legal)
            ELSE IF is_hash_of_legal_move(b, ZXor(b.state.zobrist, nth_zobrist(b, d)), legal)
            THEN Ok(TRUE)
            ELSE repetition_scan(b, d + 2, next, legal)

\* Board::test_upcoming_repetition without its first test.
test_upcoming_repetition_unguarded(b) ==
    IF Len(b.prev_states) < 1 THEN Abort
    ELSE repetition_scan(b, 3, ZNot(ZXor(b.state.zobrist, nth_zobrist(b, 1))), legals(b))

\* Board::test_upcoming_repetition
test_upcoming_repetition(b) ==
    IF b.state.halfmove < 3 THEN Ok(FALSE)
    ELSE IF Len(b.prev_states) < 1 THEN Abort
    ELSE repetition_scan(b, 3, ZNot(ZXor(b.state.zobrist, nth_zobrist(b, 1))), legals(b))

\* The threads that call init().
Threads == {1, 2, 3}

\* The state of the library after one call of init() returned: the caller
\* of Board::from_str has initialized the library.
LibReady ==
    /\ DONE = TRUE
    /\ pc = [t \in Threads |-> "idle"]
    /\ inits = [bitboard |-> 1, zobrist |-> 1, attacks |-> 1]
    /\ calls = [t \in Threads |-> IF t = 1 THEN 1 ELSE 0]

\* The number of moves applied on top of the parsed position of this run:
\* MaxLine on the positions of two kings, MaxPly on the others.
PlyBound == IF fen \in RepetitionFens THEN MaxLine ELSE MaxPly

\* The board Board::from_str builds from the FEN of this run.
Parsed == from_str(fen).val

\* The board of this run is the one from_str builds from fen, by a caller
\* that has initialized the library and has called nothing else yet.
BoardOfFen ==
    /\ from_str(fen).ok
    /\ fullmove = Parsed.fullmove
    /\ bitboards = Parsed.bitboards
    /\ mailbox = Parsed.mailbox
    /\ occ = Parsed.occ
    /\ state = Parsed.state
    /\ prev_states = Parsed.prev_states
    /\ panic = Parsed.panic
    /\ moves = <<>>
    /\ undone = 0
    /\ ret = FALSE
    /\ parsed = "ok"
    /\ LibReady
    /\ asked = <<>>
    /\ cleared = 0
    /\ upcoming = "none"
    /\ gens = FreshGens
    /\ TableEmpty

Init == fen \in StartFens /\ BoardOfFen

\* board.do_move(mv), of a move the caller validated, as parse_move does.
DoMove ==
    /\ ~panic
    /\ KingPresent(Board)
    /\ Len(moves) < PlyBound
    /\ \E mv \in Accepted(Board) :
          /\ SetBoard(do_move(Board, mv))
          /\ moves' = Append(moves, mv)
          /\ ret' = do_move_result(Board, mv)
    /\ UNCHANGED <<fen, undone, parsed, lib, asked, cleared, upcoming, gens, table>>

\* board.do_move(mv), of a move the generator yielded, as perft does.
DoGenMove ==
    /\ ~panic
    /\ KingPresent(Board)
    /\ Len(moves) < PlyBound
    /\ \E mv \in Range(legals(Board)) :
          /\ SetBoard(do_move(Board, mv))
          /\ moves' = Append(moves, mv)
          /\ ret' = do_move_result(Board, mv)
    /\ UNCHANGED <<fen, undone, parsed, lib, asked, cleared, upcoming, gens, table>>

\* board.undo_move(mv), of the last move applied.
UndoMove ==
    /\ ~panic
    /\ moves # <<>>
    /\ undone < MaxUndo
    /\ SetBoard(undo_move(Board, moves[Len(moves)]))
    /\ moves' = SubSeq(moves, 1, Len(moves) - 1)
    /\ undone' = undone + 1
    /\ UNCHANGED <<fen, ret, parsed, lib, asked, cleared, upcoming, gens, table>>

\* A caller asks for the moves of a board whose side to move has no king.
NoKing ==
    /\ ~panic
    /\ ~KingPresent(Board)
    /\ panic' = TRUE
    /\ UNCHANGED <<fullmove, bitboards, mailbox, occ, state, prev_states, fen, moves, undone, ret,
                   parsed, lib, asked, cleared, upcoming, gens, table>>

\* Any caller: moves that were validated or generated.
Next == DoMove \/ DoGenMove \/ UndoMove \/ NoKing

Spec == Init /\ [][Next]_vars

\* The perft driver: generated moves only.
NextPerft == DoGenMove \/ UndoMove

SpecPerft == Init /\ [][NextPerft]_vars

(***************************************************************************)
(* Properties of do_move and undo_move.                                    *)
(***************************************************************************)

\* C1: after a sequence of legal moves is applied with do_move and undone
\* with undo_move in reverse order, the board equals the board before the
\* first move in every field: placement, occupancy, side to move, castle
\* rights, en passant square, halfmove and fullmove counters, checkers,
\* pinned, Zobrist key and history.
DoUndoRestores == (~panic /\ moves = <<>>) => Board = Parsed

(***************************************************************************)
(* Properties of the move generator and of the legality predicates.        *)
(***************************************************************************)

\* The board b as the side color sees it: attackers_to, checkers and
\* get_king_sq read the side to move.
SeenBy(b, color) == [b EXCEPT !.state.side_to_move = color]

\* The king of color stands attacked on b.
KingAttacked(b, color) == checkers(SeenBy(b, color)) # {}

\* No move occurs twice in the sequence.
NoDuplicates(seq) == \A i, j \in 1..Len(seq) : seq[i] = seq[j] => i = j

\* C2: the generator's moves are exactly the moves for which
\* is_pseudo_legal and is_legal both return true, each of them once.
GeneratorMatchesPredicates ==
    (~panic /\ KingPresent(Board)) =>
        /\ Range(legals(Board)) = Accepted(Board)
        /\ NoDuplicates(legals(Board))

CastleKingPath(to) ==
    CASE to = G1 -> {F1, G1}
      [] to = G8 -> {F8, G8}
      [] to = C1 -> {D1, C1}
      [] to = C8 -> {D8, C8}

\* C4: a castling move passes is_pseudo_legal and is_legal only if the king
\* is not in check and neither the square it crosses nor the square it
\* lands on is attacked by the opponent.
CastleNeverThroughAttack ==
    (~panic /\ KingPresent(Board)) =>
        \A mv \in {m \in Accepted(Board) : is_castle(m)} :
            /\ checkers(Board) = {}
            /\ \A sq \in CastleKingPath(mv.to) : attackers_to(Board, sq) = {}

\* The pawn an en passant capture from `from` to `to` takes.
EpVictim(from, to) == Sq(X(to), Y(from))

\* The en passant captures a pawn of the side to move can be asked to make.
EpInputs(b) ==
    UNION {{en_passant(from, to) : to \in pawns(b.state.side_to_move, from)} :
              from \in get_bitboard(b, b.state.side_to_move, "Pawn")}

\* Taking en passant with mv empties the rank between the king of the side
\* to move and an enemy rook or queen: the two pawns are all that stands
\* between them.
EpExposesRank(b, mv) ==
    LET them == Invert(b.state.side_to_move)
        king_sq == get_king_sq(b)
    IN \E sq \in (get_bitboard(b, them, "Rook") \cup get_bitboard(b, them, "Queen"))
                 \cap RankOf(mv.from) :
          /\ king_sq \in RankOf(mv.from)
          /\ between(king_sq, sq) \cap b.occ.all = {mv.from, EpVictim(mv.from, mv.to)}

\* C5: is_legal refuses an en passant capture that removes both pawns from
\* the rank between the king and an enemy rook or queen, however far apart
\* the king and that piece stand.
EnPassantRankPinRefused ==
    (~panic /\ KingPresent(Board)) =>
        \A mv \in EpInputs(Board) :
            (is_pseudo_legal(Board, mv) /\ EpExposesRank(Board, mv)) => ~is_legal(Board, mv)

\* The en passant field of the FEN of this run.
FenEpField == Split(fen, <<" ">>[1])[4]

\* The square a double push from `from` to `to` passes over.
PassedSquare(from, to) == Sq(X(from), (Y(from) + Y(to)) \div 2)

\* C6: on a board parsed from a FEN that names the en passant target (the
\* square behind the pawn that was pushed), the capture landing on that
\* square passes is_pseudo_legal and do_move of it takes the pushed pawn
\* off the board; and after a double push do_move stores the square the
\* pawn passed over, as the FEN names it.
FenEnPassantTargetCaptured ==
    /\ (~panic /\ moves = <<>> /\ undone = 0 /\ square_from_str(FenEpField).ok) =>
          \A mv \in {m \in EpInputs(Board) : m.to = square_from_str(FenEpField).val} :
              /\ is_pseudo_legal(Board, mv)
              /\ ~do_move(Board, mv).panic
              /\ get_piece(do_move(Board, mv), EpVictim(mv.from, mv.to)) = None
    /\ (~panic /\ undone = 0 /\ moves # <<>> /\ is_double_push(moves[Len(moves)])) =>
          state.ep_square = Some(PassedSquare(moves[Len(moves)].from, moves[Len(moves)].to))

\* C7: parse_move of the text of a legal move returns that move: the same
\* squares, kind, capture and promotion.
ParseMoveRoundTrip ==
    (~panic /\ KingPresent(Board)) =>
        \A mv \in Accepted(Board) \cap Range(legals(Board)) :
            parse_move(Board, move_to_string(mv)) = Ok(mv)

\* The piece of the side to move on sq is not its king.
NotOurKing(b, sq) == get_piece(b, sq) # Some(<<b.state.side_to_move, "King">>)

\* Every move of the sequence is a capture or a quiet move of the piece on
\* from, and no quiet move comes before a capture.
CapturesThenQuietsFrom(seq, from) ==
    /\ \A i \in 1..Len(seq) : seq[i].from = from /\ seq[i].kind \in {"Capture", "Quiet"}
    /\ \A i, j \in 1..Len(seq) : (i < j /\ is_capture(seq[j])) => is_capture(seq[i])

\* C8: with two checkers, is_pseudo_legal refuses every move of a piece
\* that is not the king, and the generator yields moves of the king only,
\* its captures before its quiet moves.
DoubleCheckOnlyKingMoves ==
    (~panic /\ KingPresent(Board) /\ Cardinality(state.checkers) = 2) =>
        /\ \A mv \in MoveInputs(Board) :
              NotOurKing(Board, mv.from) => ~is_pseudo_legal(Board, mv)
        /\ CapturesThenQuietsFrom(legals(Board), get_king_sq(Board))

\* The side to move stands in double check, owns a piece besides its king
\* that could take a checker, and its king has a capture and a quiet move.
DoubleCheckWithDefender ==
    /\ ~panic
    /\ KingPresent(Board)
    /\ Cardinality(state.checkers) = 2
    /\ \E mv \in MoveInputs(Board) :
          /\ NotOurKing(Board, mv.from)
          /\ mv.to \in state.checkers
          /\ mv.to \in attacks_of(state.side_to_move, Unwrap(get_piece(Board, mv.from))[2],
                                  mv.from, occ.all)
    /\ \E i, j \in 1..Len(legals(Board)) :
          is_capture(legals(Board)[i]) /\ is_quiet(legals(Board)[j])

(***************************************************************************)
(* Properties of the Zobrist key and of the FEN text.                      *)
(***************************************************************************)

\* The key of a castle right.
CastleKey(mask) == [keys |-> {<<"Castle", mask, 0>>}, inv |-> FALSE]

\* The key the position of b determines: the keys of the pieces on their
\* squares, the keys of the castle rights held, and the side to move.
PositionKey(b) ==
    [keys |-> {<<Unwrap(b.mailbox[sq])[1], Unwrap(b.mailbox[sq])[2], sq>> :
                  sq \in {t \in Squares : b.mailbox[t] # None}}
              \cup UNION {CastleKey(mask).keys : mask \in b.state.castle_rights},
     inv |-> b.state.side_to_move = "Black"]

\* C9: the Zobrist key is the key of the position: the XOR of the keys of
\* the pieces on their squares and of the castle rights held, with the
\* side-to-move key when Black is to move, however the board was reached.
ZobristIsPositionKey == ~panic => state.zobrist = PositionKey(Board)

\* C10: parsing the FEN text of a reachable board gives a board equal to
\* it in placement, side to move, castle rights, en passant square,
\* halfmove, fullmove, checkers, pinned and Zobrist key.
FenRoundTrip ==
    (~panic /\ KingPresent(Board)) =>
        /\ from_str(to_fen(Board)).ok
        /\ from_str(to_fen(Board)).val.bitboards = bitboards
        /\ from_str(to_fen(Board)).val.mailbox = mailbox
        /\ from_str(to_fen(Board)).val.fullmove = fullmove
        /\ from_str(to_fen(Board)).val.state = state

(***************************************************************************)
(* Invariants of the board's redundant representations.                    *)
(***************************************************************************)

\* The last move applied and not undone.
LastMove == moves[Len(moves)]

\* C11: for every square s the mailbox holds Some((c, p)) at s exactly when
\* s is in bitboards[c][p], and every occupied square is in exactly one of
\* the twelve piece bitboards.
MailboxMatchesBitboards ==
    ~panic =>
        /\ \A s \in Squares, c \in Colors, p \in Pieces :
              (mailbox[s] = Some(<<c, p>>)) <=> (s \in bitboards[c][p])
        /\ \A s \in occ.all :
              Cardinality({cp \in Colors \X Pieces : s \in bitboards[cp[1]][cp[2]]}) = 1

\* A capture was applied after another move had been applied and undone.
CaptureAfterUndo == ~panic /\ undone > 0 /\ moves # <<>> /\ is_capture(LastMove)

\* C12: occupancy.all is the union of the twelve piece bitboards,
\* occupancy.colored[c] the union of the six bitboards of color c, and the
\* two colored occupancies are disjoint.
OccupancyMatchesBitboards ==
    ~panic =>
        /\ occ.all = UNION {bitboards[c][p] : c \in Colors, p \in Pieces}
        /\ \A c \in Colors : occ.colored[c] = UNION {bitboards[c][p] : p \in Pieces}
        /\ occ.colored["White"] \cap occ.colored["Black"] = {}

\* A castling move, which displaces two pieces, was applied.
CastleApplied == ~panic /\ moves # <<>> /\ is_castle(LastMove)

\* The pieces of the side not to move whose attacks, from their own
\* squares under the full occupancy, reach the king of the side to move.
AttackersOfKing(b) ==
    LET them == Invert(b.state.side_to_move)
    IN {s \in b.occ.colored[them] :
           get_king_sq(b) \in attacks_of(them, Unwrap(b.mailbox[s])[2], s, b.occ.all)}

\* C13: state.checkers is the set of the pieces of the side not to move
\* that attack the king of the side to move under the full occupancy, on
\* the board from_str builds and after every do_move and undo_move.
CheckersAreKingAttackers ==
    (~panic /\ KingPresent(Board)) => state.checkers = AttackersOfKing(Board)

\* A move that gives check was applied.
CheckGiven == ~panic /\ undone = 0 /\ moves # <<>> /\ state.checkers # {}

\* C14: each side has exactly one king, and no move the two predicates
\* accept captures a king.
KingsNeverCaptured ==
    ~panic =>
        /\ \A c \in Colors : Cardinality(bitboards[c]["King"]) = 1
        /\ KingPresent(Board) =>
              \A mv \in Accepted(Board) : is_capture(mv) => get_capture(mv) # "King"

(***************************************************************************)
(* Properties of the fields do_move updates.                               *)
(***************************************************************************)

\* C15: the length of prev_states is the number of do_move calls minus the
\* number of undo_move calls since the board was built.
HistoryLengthCountsMoves == ~panic => Len(prev_states) = Len(moves)

\* A move was applied on top of a board from which a move had been undone.
MoveAppliedAfterUndo == ~panic /\ undone > 0 /\ Len(moves) > 0 /\ Len(prev_states) > 0

\* The state do_move saved when LastMove was applied.
StateBefore == prev_states[Len(prev_states)]

\* The piece LastMove moved, read on the board after the move.
MovedPiece ==
    IF is_promote(LastMove) THEN "Pawn" ELSE Unwrap(mailbox[LastMove.to])[2]

\* LastMove is a quiet move of a piece that is not a pawn.
QuietNonPawn == is_quiet(LastMove) /\ MovedPiece # "Pawn"

\* C16: do_move sets halfmove to its previous value plus 1 for a quiet move
\* of a piece that is not a pawn, and to 0 for every other move.
HalfmoveCountsQuietMoves ==
    (~panic /\ moves # <<>> /\ Len(prev_states) = Len(moves)) =>
        state.halfmove = IF QuietNonPawn THEN StateBefore.halfmove + 1 ELSE 0

EpSquareOnlyAfterDoublePush ==
    (~panic /\ moves # <<>> /\ Len(prev_states) = Len(moves)) =>
        (state.ep_square # None <=> is_double_push(LastMove))

\* A double push was applied and the en passant square is set.
DoublePushApplied ==
    ~panic /\ moves # <<>> /\ is_double_push(LastMove) /\ state.ep_square # None

\* The king's and the rook's home squares of a castle right.
HomeSquares(right) ==
    CASE right = "WhiteOO" -> {E1, H1}
      [] right = "WhiteOOO" -> {E1, A1}
      [] right = "BlackOO" -> {E8, H8}
      [] right = "BlackOOO" -> {E8, A8}

PawnOntoLastRank(b, seq, i) ==
    /\ b.mailbox[seq[i].from] = Some(<<b.state.side_to_move, "Pawn">>)
    /\ Y(seq[i].to) = (IF b.state.side_to_move = "White" THEN 7 ELSE 0)

\* The four moves of seq from index s on are the promotions of one pawn to
\* one square, to a queen, a rook, a bishop and a knight in that order.
PromotionGroupAt(seq, s) ==
    /\ s >= 1 /\ s + 3 <= Len(seq)
    /\ \A j \in 0..3 :
          /\ seq[s + j].kind = seq[s].kind
          /\ seq[s + j].from = seq[s].from
          /\ seq[s + j].to = seq[s].to
          /\ seq[s + j].capture = seq[s].capture
    /\ seq[s].promote = Some("Queen")
    /\ seq[s + 1].promote = Some("Rook")
    /\ seq[s + 2].promote = Some("Bishop")
    /\ seq[s + 3].promote = Some("Knight")

\* C20: the generator yields Promote and PromoteCapture moves exactly for
\* the pawn moves that end on the mover's last rank, four of them for each
\* origin and destination, consecutive and in the order queen, rook,
\* bishop, knight; no other pawn move ends on the last rank.
PromotionsInGroupsOfFour ==
    (~panic /\ KingPresent(Board)) =>
        LET seq == legals(Board)
        IN \A i \in 1..Len(seq) :
              /\ seq[i].kind \in {"Promote", "PromoteCapture"} <=> PawnOntoLastRank(Board, seq, i)
              /\ seq[i].kind \in {"Promote", "PromoteCapture"} =>
                    /\ \E s \in (i - 3)..i : PromotionGroupAt(seq, s)
                    /\ Cardinality({k \in 1..Len(seq) :
                           seq[k].from = seq[i].from /\ seq[k].to = seq[i].to}) = 4

\* The generator yields promotions and promote-captures of a pawn.
PromotionsGenerated ==
    /\ ~panic /\ KingPresent(Board)
    /\ \E i \in 1..Len(legals(Board)) : legals(Board)[i].kind = "Promote"
    /\ \E i \in 1..Len(legals(Board)) : legals(Board)[i].kind = "PromoteCapture"

(***************************************************************************)
(* The generator on the start position.                                    *)
(***************************************************************************)

\* The pushes of the pawns of files 0..7 from rank 2: for each file the
\* single push, then the double push.
OpeningPawnMoves ==
    [i \in 1..16 |->
        IF i % 2 = 1 THEN quiet(Sq((i - 1) \div 2, 1), Sq((i - 1) \div 2, 2))
        ELSE double_push(Sq((i - 1) \div 2, 1), Sq((i - 1) \div 2, 3))]

\* b1-a3, b1-c3, g1-f3, g1-h3
OpeningKnightMoves ==
    <<quiet(Sq(1, 0), Sq(0, 2)), quiet(Sq(1, 0), Sq(2, 2)),
      quiet(Sq(6, 0), Sq(5, 2)), quiet(Sq(6, 0), Sq(7, 2))>>

\* C21: on the start position the generator yields exactly 20 moves, in
\* this order: for each file a to h the single push then the double push of
\* its pawn, then b1-a3, b1-c3, g1-f3, g1-h3.
OpeningsInOrder ==
    (~panic /\ fen = FenStart /\ moves = <<>>) =>
        /\ Len(legals(Board)) = 20
        /\ legals(Board) = OpeningPawnMoves \o OpeningKnightMoves

\* The last of the generated opening moves was applied to the start
\* position.
LastOpeningApplied ==
    ~panic /\ fen = FenStart /\ undone = 0 /\ moves = <<quiet(Sq(6, 0), Sq(7, 2))>>

(***************************************************************************)
(* Board::from_str on well-formed and malformed input.                     *)
(***************************************************************************)

\* Texts of one rank: two well-formed ranks with a king, the empty rank,
\* a rank of seven squares, ranks of nine squares (ending with a digit,
\* ending with a piece, nine pieces), a rank with an unknown letter and a
\* rank with the digit 9.
RankInputs ==
    {<<"k", "7">>, <<"K", "7">>, <<"8">>, <<"7">>, <<"8", "1">>, <<"8", "P">>,
     <<"P", "P", "P", "P", "P", "P", "P", "P", "P">>, <<"4", "x", "3">>, <<"9">>}

\* The ranks 7 to 2 of the inputs, empty.
MiddleRanks == <<"/", "8", "/", "8", "/", "8", "/", "8", "/", "8", "/", "8", "/">>

\* The fields after the placement: " w - - 0 1".
TailFields == <<" ", "w", " ", "-", " ", "-", " ", "0", " ", "1">>

\* Inputs with a wrong number of fields or of ranks.
FieldInputs ==
    {<<"k", "7">> \o MiddleRanks \o <<"K", "7">> \o SubSeq(TailFields, 1, 8),
     <<"k", "7">> \o MiddleRanks \o <<"K", "7">> \o TailFields \o <<" ", "1">>,
     <<"k", "7">> \o MiddleRanks \o <<"K", "7">> \o <<" ">> \o TailFields,
     <<"k", "7">> \o SubSeq(MiddleRanks, 1, 11) \o <<"K", "7">> \o TailFields,
     <<"k", "7">> \o MiddleRanks \o <<"8", "/">> \o <<"K", "7">> \o TailFields,
     <<>>}

\* The inputs of from_str: every pair of a top and a bottom rank around
\* empty ranks, and the inputs with a wrong number of fields or ranks.
FenInputs ==
    {top \o MiddleRanks \o bottom \o TailFields : top \in RankInputs, bottom \in RankInputs}
        \cup FieldInputs

\* Before Board::from_str is called: the caller holds a text and no board.
InitFen ==
    /\ fen \in FenInputs
    /\ fullmove = 1
    /\ bitboards = [c \in Colors |-> [p \in Pieces |-> EMPTY]]
    /\ mailbox = [sq \in Squares |-> None]
    /\ occ = [all |-> EMPTY, colored |-> [c \in Colors |-> EMPTY]]
    /\ state = NewBoard("White", {}, None, 0, 1).state
    /\ prev_states = <<>>
    /\ panic = FALSE
    /\ moves = <<>>
    /\ undone = 0
    /\ ret = FALSE
    /\ parsed = "none"
    /\ LibReady
    /\ asked = <<>>
    /\ cleared = 0
    /\ upcoming = "none"
    /\ gens = FreshGens
    /\ TableEmpty

\* Board::from_str(fen): the caller gets an error and no board, or a board.
ParseFen ==
    /\ parsed = "none"
    /\ LET r == from_str(fen)
       IN IF ~r.ok
          THEN /\ parsed' = "err"
               /\ UNCHANGED <<fullmove, bitboards, mailbox, occ, state, prev_states, panic>>
          ELSE /\ parsed' = IF r.val.panic THEN "panic" ELSE "ok"
               /\ SetBoard(r.val)
    /\ UNCHANGED <<fen, moves, undone, ret, lib, asked, cleared, upcoming, gens, table>>

SpecFen == InitFen /\ [][ParseFen]_vars

\* The number of squares a rank text describes: a digit counts for its
\* value, any other character for one square.
RECURSIVE RankWidth(_)
RankWidth(rank) ==
    IF rank = <<>> THEN 0
    ELSE (IF rank[1] \in {"1", "2", "3", "4", "5", "6", "7", "8"}
          THEN IndexOf(DigitChars, rank[1]) ELSE 1)
         + RankWidth(Tail(rank))

\* The text has not six fields, or not eight ranks, or a rank that does not
\* describe eight squares.
Malformed(s) ==
    \/ Len(Split(s, " ")) # 6
    \/ Len(Split(Split(s, " ")[1], "/")) # 8
    \/ \E i \in 1..8 : RankWidth(Split(Split(s, " ")[1], "/")[i]) # 8

\* The rank loop of from_str on the placement of s, with the local board
\* it holds when it returns.
PlacementOf(s) ==
    parse_ranks(NewBoard("White", {}, None, 0, 1), Split(Split(s, " ")[1], "/"), 1)

\* The rank loop returned an error while its local board held a piece on a
\* square outside the rank it was parsing that the ranks parsed before had
\* not put there.
StrayPiece(s) ==
    /\ Len(Split(s, " ")) = 6
    /\ Len(Split(Split(s, " ")[1], "/")) = 8
    /\ LET r == PlacementOf(s)
       IN /\ ~r.ok
          /\ LET above == parse_ranks(NewBoard("White", {}, None, 0, 1),
                                      SubSeq(Split(Split(s, " ")[1], "/"), 1, 7 - r.rank), 1)
             IN \E sq \in Squares :
                   Y(sq) # r.rank /\ r.val.mailbox[sq] # above.val.mailbox[sq]

\* C22: from_str returns an error, without aborting and without placing a
\* piece outside the rank it is parsing, for every text that has not six
\* fields, not eight ranks or a rank that does not describe eight squares;
\* the board of an accepted text has the checkers and the pinned pieces of
\* its placement.
FenErrorsReported ==
    parsed # "none" =>
        /\ Malformed(fen) => (parsed = "err" /\ ~StrayPiece(fen))
        /\ (parsed = "ok" /\ KingPresent(Board)) =>
              (state.checkers = AttackersOfKing(Board) /\ state.pinned = pinned(Board))

(***************************************************************************)
(* Board::parse_move on well-formed and malformed texts.                   *)
(***************************************************************************)

\* Texts of moves: moves of the start positions, legal or not, texts of a
\* wrong length, with a wrong square or a wrong promotion letter, and texts
\* with a letter of two bytes.
MoveTexts ==
    {<<"e", "2", "e", "4">>, <<"e", "2", "e", "3">>, <<"e", "1", "g", "1">>,
     <<"e", "1", "d", "1">>, <<"e", "1", "e", "2">>, <<"a", "1", "a", "8">>,
     <<"e", "7", "e", "8", "q">>, <<"e", "7", "d", "8", "n">>, <<"e", "7", "e", "8">>,
     <<"e", "7", "e", "8", "k">>, <<"e", "2", "e", "3", "q">>, <<"g", "1", "h", "3">>,
     <<>>, <<"e", "2">>, <<"e", "2", "e", "4", "e", "5">>,
     <<"i", "2", "e", "4">>, <<"e", "2", "e", "9">>, <<"e", "0", "e", "1">>,
     <<"é", "é">>, <<"e", "2", "é", "4">>, <<"a", "é", "4">>, <<"e", "2", "e", "é">>}

\* board.parse_move(s), once in a run: the board is borrowed immutably; an
\* abort of the call ends the run.
ParseMove ==
    /\ ~panic
    /\ KingPresent(Board)
    /\ asked = <<>>
    /\ \E s \in MoveTexts :
          /\ asked' = [text |-> s, answer |-> parse_move(Board, s)]
          /\ panic' = ("abort" \in DOMAIN parse_move(Board, s))
    /\ UNCHANGED <<fullmove, bitboards, mailbox, occ, state, prev_states,
                   fen, moves, undone, ret, parsed, lib, cleared, upcoming, gens, table>>

\* A caller that parses texts of moves and applies generated moves.
NextMoves == DoGenMove \/ ParseMove

SpecMoves == Init /\ [][NextMoves]_vars

\* The two characters name a square: a file a to h and a rank 1 to 8.
NamesSquare(t) ==
    /\ Len(t) = 2
    /\ t[1] \in {"a", "b", "c", "d", "e", "f", "g", "h"}
    /\ t[2] \in {"1", "2", "3", "4", "5", "6", "7", "8"}

\* The text is one parse_move has to refuse on board b: its length is
\* neither 4 nor 5, a square is invalid, the fifth character is no
\* promotion letter, or the move inferred from it fails is_pseudo_legal or
\* is_legal.
Refusable(b, s) ==
    IF Len(s) \notin {4, 5} THEN TRUE
    ELSE IF ~NamesSquare(SubSeq(s, 1, 2)) \/ ~NamesSquare(SubSeq(s, 3, 4)) THEN TRUE
    ELSE IF Len(s) = 5 /\ s[5] \notin {"r", "n", "b", "q"} THEN TRUE
    ELSE LET from == square_from_str(SubSeq(s, 1, 2)).val
             to == square_from_str(SubSeq(s, 3, 4)).val
         IN ~Accepts(b, IF Len(s) = 4 THEN parse_move_plain(b, from, to)
                        ELSE parse_move_promote(b, from, to, promote_from_char(s[5]).val))

\* C23: parse_move returns an error for every text of a wrong length, with
\* an invalid square or promotion letter, or whose move fails is_pseudo_legal
\* or is_legal; whatever it returns, the board is unchanged.
ParseMoveRefuses ==
    [][asked' # asked =>
          /\ <<fullmove, bitboards, mailbox, occ, state, prev_states, panic>>'
                = <<fullmove, bitboards, mailbox, occ, state, prev_states, panic>>
          /\ Refusable(Board, asked'.text) => asked'.answer = Err]_vars

(***************************************************************************)
(* init(): the static DONE is read and written without synchronization,   *)
(* so the steps of two threads inside init() interleave.                   *)
(***************************************************************************)

\* The process starts: no board, init() never called.
InitLib ==
    /\ DONE = FALSE
    /\ pc = [t \in Threads |-> "idle"]
    /\ inits = [bitboard |-> 0, zobrist |-> 0, attacks |-> 0]
    /\ calls = [t \in Threads |-> 0]
    /\ fen = <<>>
    /\ fullmove = 1
    /\ bitboards = [c \in Colors |-> [p \in Pieces |-> EMPTY]]
    /\ mailbox = [sq \in Squares |-> None]
    /\ occ = [all |-> EMPTY, colored |-> [c \in Colors |-> EMPTY]]
    /\ state = NewBoard("White", {}, None, 0, 1).state
    /\ prev_states = <<>>
    /\ panic = FALSE
    /\ moves = <<>>
    /\ undone = 0
    /\ ret = FALSE
    /\ parsed = "none"
    /\ asked = <<>>
    /\ cleared = 0
    /\ upcoming = "none"
    /\ gens = FreshGens
    /\ TableEmpty

\* What init() leaves alone.
BoardUnchanged ==
    UNCHANGED <<fullmove, bitboards, mailbox, occ, state, prev_states, panic, fen, moves,
                undone, ret, parsed, asked, cleared, upcoming, gens, table>>

\* Thread t calls init().
CallInit(t) ==
    /\ pc[t] = "idle"
    /\ calls[t] < MaxCalls
    /\ pc' = [pc EXCEPT ![t] = "test"]
    /\ calls' = [calls EXCEPT ![t] = @ + 1]
    /\ UNCHANGED <<DONE, inits>>
    /\ BoardUnchanged

\* "if DONE { return; }"
TestDone(t) ==
    /\ pc[t] = "test"
    /\ pc' = [pc EXCEPT ![t] = IF DONE THEN "idle" ELSE "set"]
    /\ UNCHANGED <<DONE, inits, calls>>
    /\ BoardUnchanged

\* "DONE = true;"
SetDone(t) ==
    /\ pc[t] = "set"
    /\ DONE' = TRUE
    /\ pc' = [pc EXCEPT ![t] = "bitboard"]
    /\ UNCHANGED <<inits, calls>>
    /\ BoardUnchanged

\* "bitboard::init();"
InitBitboard(t) ==
    /\ pc[t] = "bitboard"
    /\ inits' = [inits EXCEPT !.bitboard = @ + 1]
    /\ pc' = [pc EXCEPT ![t] = "zobrist"]
    /\ UNCHANGED <<DONE, calls>>
    /\ BoardUnchanged

\* "zobrist::init();"
InitZobrist(t) ==
    /\ pc[t] = "zobrist"
    /\ inits' = [inits EXCEPT !.zobrist = @ + 1]
    /\ pc' = [pc EXCEPT ![t] = "attacks"]
    /\ UNCHANGED <<DONE, calls>>
    /\ BoardUnchanged

\* "attacks::init();" and the return.
InitAttacks(t) ==
    /\ pc[t] = "attacks"
    /\ inits' = [inits EXCEPT !.attacks = @ + 1]
    /\ pc' = [pc EXCEPT ![t] = "idle"]
    /\ UNCHANGED <<DONE, calls>>
    /\ BoardUnchanged

NextLib ==
    \E t \in Threads :
        \/ CallInit(t)
        \/ TestDone(t)
        \/ SetDone(t)
        \/ InitBitboard(t)
        \/ InitZobrist(t)
        \/ InitAttacks(t)

SpecLib == InitLib /\ [][NextLib]_vars

\* C24: over any number of calls of init(), one after the other or from
\* several threads at once, each sub-initializer runs exactly once: never
\* twice, and once when a call has returned.
InitRunsOnce ==
    /\ \A k \in DOMAIN inits : inits[k] <= 1
    /\ (\A t \in Threads : pc[t] = "idle") /\ (\E t \in Threads : calls[t] > 0)
          => \A k \in DOMAIN inits : inits[k] = 1

(***************************************************************************)
(* clear_history between generated moves.                                  *)
(***************************************************************************)

\* board.clear_history()
ClearHistory ==
    /\ ~panic
    /\ SetBoard(clear_history(Board))
    /\ cleared' = Len(moves)
    /\ UNCHANGED <<fen, moves, undone, ret, parsed, lib, asked, upcoming, gens, table>>

\* The perft driver with a caller that drops the history.
NextHistory == DoGenMove \/ UndoMove \/ ClearHistory

SpecHistory == Init /\ [][NextHistory]_vars

InitRepetition == fen \in RepetitionFens /\ BoardOfFen

\* board.test_upcoming_repetition(), once in a run: the board is borrowed
\* immutably; an abort of the call ends the run.
TestRepetition ==
    /\ ~panic
    /\ KingPresent(Board)
    /\ upcoming = "none"
    /\ LET r == test_upcoming_repetition(Board)
       IN /\ upcoming' = IF ~r.ok THEN "abort" ELSE IF r.val THEN "true" ELSE "false"
          /\ panic' = ~r.ok
    /\ UNCHANGED <<fullmove, bitboards, mailbox, occ, state, prev_states,
                   fen, moves, undone, ret, parsed, lib, asked, cleared, gens, table>>

NextRepetition == DoGenMove \/ UndoMove \/ TestRepetition

SpecRepetition == InitRepetition /\ [][NextRepetition]_vars

\* The Zobrist key d plies back, the current one for d = 0.
KeyBack(d) == IF d = 0 THEN state.zobrist ELSE prev_states[Len(prev_states) - d + 1].zobrist

\* The keys of pieces that change, and whether the side-to-move key
\* changes, between the positions j plies and j - 1 plies back.
PlyDelta(j) == ZXor(KeyBack(j - 1), KeyBack(j))

\* The XOR of the deltas of the plies 1, 3, ..., d back, each without the
\* side-to-move key, is zero: every piece key occurs in an even number of
\* them.
DeltasCancel(d) ==
    LET odd == {j \in 1..d : j % 2 = 1}
    IN /\ \A j \in odd : PlyDelta(j).inv
       /\ \A k \in UNION {PlyDelta(j).keys : j \in odd} :
             Cardinality({j \in odd : k \in PlyDelta(j).keys}) % 2 = 0

\* The XOR of the current key with the key d plies back is the delta of a
\* quiet move of a piece (no pawn) that is legal on the current board.
DeltaIsLegalMove(d) ==
    \E mv \in Range(legals(Board)) :
        /\ mv.kind = "Quiet"
        /\ mailbox[mv.from] # Some(<<state.side_to_move, "Pawn">>)
        /\ ZXor(KeyBack(0), KeyBack(d)).inv
        /\ ZXor(KeyBack(0), KeyBack(d)).keys
              = {<<state.side_to_move, Unwrap(mailbox[mv.from])[2], sq>> : sq \in {mv.from, mv.to}}

\* C26: test_upcoming_repetition returns false when halfmove is below 3,
\* and returns true only if for an odd d in 3..halfmove the deltas of the
\* plies back to d cancel and the XOR of the current key with the key d
\* plies back is the hash of a legal move; the call leaves the board as it
\* was.
UpcomingRepetitionSound ==
    [][upcoming' # upcoming =>
          /\ <<fullmove, bitboards, mailbox, occ, state, prev_states>>'
                = <<fullmove, bitboards, mailbox, occ, state, prev_states>>
          /\ state.halfmove < 3 => upcoming' = "false"
          /\ upcoming' = "true" =>
                \E d \in 3..state.halfmove :
                    /\ d % 2 = 1
                    /\ d <= Len(prev_states)
                    /\ DeltasCancel(d)
                    /\ DeltaIsLegalMove(d)]_vars

\* The call returned true: the side to move can step back to the position
\* of three plies ago.
RepetitionFound == upcoming = "true" /\ Len(moves) = 3 /\ undone = 0

(***************************************************************************)
(* What is_pseudo_legal accepts of kings, of pieces under check and of     *)
(* pawns.                                                                   *)
(***************************************************************************)

\* The moves of b whose moving piece is the piece of the side to move.
MovesOf(b, piece) ==
    {mv \in MoveInputs(b) : get_piece(b, mv.from) = Some(<<b.state.side_to_move, piece>>)}

\* An enemy piece attacks the square to once the piece on from has moved
\* there: the origin is empty, the destination occupied, and a piece
\* captured on the destination is gone.
AttackedAfter(b, from, to) ==
    LET them == Invert(b.state.side_to_move)
        after == (b.occ.all \ {from}) \cup {to}
    IN \E s \in b.occ.colored[them] \ {to} :
          to \in attacks_of(them, Unwrap(b.mailbox[s])[2], s, after)

\* C28: is_pseudo_legal accepts a king move that is not a castle only if
\* the destination is adjacent to the king and no enemy piece attacks it
\* once the king has left its origin.
KingStepsToSafety ==
    (~panic /\ KingPresent(Board)) =>
        \A mv \in MovesOf(Board, "King") :
            (~is_castle(mv) /\ is_pseudo_legal(Board, mv)) =>
                /\ Abs(X(mv.to) - X(mv.from)) <= 1
                /\ Abs(Y(mv.to) - Y(mv.from)) <= 1
                /\ ~AttackedAfter(Board, mv.from, mv.to)

\* The move satisfies every rule of is_pseudo_legal but the one on checkers.
PieceRules(b, mv) == is_pseudo_legal([b EXCEPT !.state.checkers = {}], mv)

\* The move takes the checking piece off the board: it lands on it, or it
\* is an en passant capture of the checking pawn.
CapturesChecker(b, mv) ==
    \/ mv.to \in b.state.checkers
    \/ is_en_passant(mv) /\ Sq(X(mv.to), Y(mv.from)) \in b.state.checkers

\* C29: with exactly one checker, is_pseudo_legal accepts a move of a piece
\* other than the king that satisfies the piece rules if and only if it
\* captures the checker, an en passant capture of a checking pawn included,
\* or lands strictly between the king and the checker.
SingleCheckerRule ==
    (~panic /\ KingPresent(Board) /\ Cardinality(state.checkers) = 1) =>
        \A mv \in MoveInputs(Board) \ MovesOf(Board, "King") :
            PieceRules(Board, mv) =>
                (is_pseudo_legal(Board, mv) <=>
                    \/ CapturesChecker(Board, mv)
                    \/ mv.to \in between(get_king_sq(Board),
                                         as_square_unchecked(state.checkers)))

\* C30: is_pseudo_legal accepts a pawn move onto rank 1 or rank 8 only as
\* a promotion, and accepts a promotion only of a pawn and only onto rank 1
\* or rank 8.
PromotionOnlyOnLastRank ==
    (~panic /\ KingPresent(Board)) =>
        \A mv \in MoveInputs(Board) :
            is_pseudo_legal(Board, mv) =>
                LET piece == Unwrap(get_piece(Board, mv.from))[2]
                IN /\ (piece = "Pawn" /\ Y(mv.to) \in {0, 7}) => is_promote(mv)
                   /\ is_promote(mv) => (piece = "Pawn" /\ Y(mv.to) \in {0, 7})

(***************************************************************************)
(* Pins.                                                                   *)
(***************************************************************************)

\* The piece on t is an enemy slider whose line of movement holds the king
\* of the side to move.
SliderOnKingLine(b, t) ==
    LET k == get_king_sq(b)
    IN /\ b.mailbox[t] # None
       /\ Unwrap(b.mailbox[t])[1] = Invert(b.state.side_to_move)
       /\ \/ Unwrap(b.mailbox[t])[2] \in {"Rook", "Queen"} /\ Straight(k, t)
          \/ Unwrap(b.mailbox[t])[2] \in {"Bishop", "Queen"} /\ Diagonal(k, t)

\* The squares holding a piece of the side to move that is the only piece
\* strictly between its king and an enemy slider on the king's line.
Pins(b) ==
    LET k == get_king_sq(b)
        sliders == {t \in Squares : SliderOnKingLine(b, t)}
    IN {s \in Squares :
          /\ b.mailbox[s] # None
          /\ Unwrap(b.mailbox[s])[1] = b.state.side_to_move
          /\ \E t \in sliders :
                /\ s \in BetweenTable[k][t]
                /\ \A u \in BetweenTable[k][t] \ {s} : b.mailbox[u] = None}

\* The moves of a pinned piece, not the king, that is_pseudo_legal accepts
\* and that leave the line through the king and the origin.
MovesOffThePin(b) ==
    LET k == get_king_sq(b)
        off(from) == UNION {{mv \in MovesFromTo(b, from, to) : is_pseudo_legal(b, mv)} :
                               to \in Squares \ RayMaskTable[k][from]}
    IN UNION {off(from) : from \in Pins(b) \ {k}}

\* C31: after from_str and after every do_move, state.pinned is exactly the
\* set of squares holding a piece of the side to move that stands alone
\* between its king and an enemy rook or queen on a rank or file, or an
\* enemy bishop or queen on a diagonal; is_legal refuses the move of a
\* pinned piece other than the king that leaves the line through the king
\* and the origin.
PinnedIsExact ==
    (~panic /\ KingPresent(Board)) =>
        /\ state.pinned = Pins(Board)
        /\ \A mv \in MovesOffThePin(Board) : ~is_legal(Board, mv)

\* A move was applied, and a pinned piece of the side to move has a move off
\* its pin line.
PinnedAfterMove ==
    /\ ~panic /\ KingPresent(Board)
    /\ Len(moves) > 0
    /\ MovesOffThePin(Board) # {}

(***************************************************************************)
(* The generators of legals(), resumed one move at a time.                 *)
(***************************************************************************)
InitGenerators == fen \in GeneratorFens /\ BoardOfFen

\* board.do_move(mv) of a generated move: the generators borrow the board,
\* so none of them is alive.
MoveBetweenGenerators ==
    /\ gens = FreshGens
    /\ ~legals_unreachable(Board)
    /\ DoGenMove

\* MoveGenerator::next of the generator g: the generator resumes and yields
\* its next move, or completes and next() returns Move::None; calling next()
\* again after that is the caller's error.
NextMove(g) ==
    /\ ~panic
    /\ KingPresent(Board)
    /\ gens[g].state \in {"fresh", "running"}
    /\ gens' = [gens EXCEPT ![g] =
                   IF legals_unreachable(Board) THEN [@ EXCEPT !.state = "abort"]
                   ELSE IF Len(@.out) < Len(legals(Board))
                   THEN [out |-> Append(@.out, legals(Board)[Len(@.out) + 1]),
                         state |-> "running"]
                   ELSE [@ EXCEPT !.state = "done"]]
    /\ UNCHANGED <<fullmove, bitboards, mailbox, occ, state, prev_states, panic,
                   fen, moves, undone, ret, parsed, lib, asked, cleared, upcoming, table>>

NextGenerators == MoveBetweenGenerators \/ \E g \in Generators : NextMove(g)

SpecGenerators == InitGenerators /\ [][NextGenerators]_vars

\* The stage of the generator a move belongs to, 1 to 8.
StageOf(b, mv) ==
    LET piece == Unwrap(get_piece(b, mv.from))[2]
    IN IF is_castle(mv) THEN 1
       ELSE IF is_en_passant(mv) THEN 5
       ELSE IF is_capture(mv)
       THEN (IF piece = "Pawn" THEN 2 ELSE IF piece = "King" THEN 4 ELSE 3)
       ELSE (IF piece = "Pawn" THEN 6 ELSE IF piece = "King" THEN 8 ELSE 7)

\* One sequence is the beginning of the other.
Agree(p, q) == \A i \in 1..Len(p) : i <= Len(q) => p[i] = q[i]

\* C32: a generator yields its moves in the order of the stages (castles;
\* pawn captures; knight, bishop, rook and queen captures; king captures;
\* en passant; pawn pushes; knight, bishop, rook and queen quiets; king
\* quiets), it ends with the none sentinel and never aborts, and two
\* generators on the same board yield the same moves in the same order.
GeneratorOrderedAndEnds ==
    /\ \A g \in Generators :
          /\ gens[g].state # "abort"
          /\ \A i, j \in 1..Len(gens[g].out) :
                i < j => StageOf(Board, gens[g].out[i]) <= StageOf(Board, gens[g].out[j])
    /\ Agree(gens[1].out, gens[2].out) /\ Agree(gens[2].out, gens[1].out)
    /\ (gens[1].state = "done" /\ gens[2].state = "done") => gens[1].out = gens[2].out

(***************************************************************************)
(* Table::insert, one call after the other.                                *)
(***************************************************************************)
InitTable ==
    /\ fen = <<>>
    /\ fullmove = 1
    /\ bitboards = [c \in Colors |-> [p \in Pieces |-> EMPTY]]
    /\ mailbox = [sq \in Squares |-> None]
    /\ occ = [all |-> EMPTY, colored |-> [c \in Colors |-> EMPTY]]
    /\ state = NewBoard("White", {}, None, 0, 1).state
    /\ prev_states = <<>>
    /\ panic = FALSE
    /\ moves = <<>>
    /\ undone = 0
    /\ ret = FALSE
    /\ parsed = "none"
    /\ LibReady
    /\ asked = <<>>
    /\ cleared = 0
    /\ upcoming = "none"
    /\ gens = FreshGens
    /\ TableEmpty

\* Table::insert(zobrist, entry)
Insert ==
    /\ Len(inserts) < MaxInserts
    /\ \E z \in Zobrists, entry \in Entries :
          /\ buckets' = insert(buckets, z, entry)
          /\ inserts' = Append(inserts, <<z, entry>>)
    /\ UNCHANGED <<fullmove, bitboards, mailbox, occ, state, prev_states, panic, fen, moves,
                   undone, ret, parsed, lib, asked, cleared, upcoming, gens>>

\* Table::get(zobrist), which changes nothing.
Get ==
    /\ \E z \in Zobrists : get(buckets, z) \in {None} \cup {Some(e) : e \in Entries}
    /\ UNCHANGED vars

NextTable == Insert \/ Get

SpecTable == InitTable /\ [][NextTable]_vars

\* The rank of an entry in the replacement policy.
Priority(e) == e.depth + e.age + e.flag

\* C33: Table::insert(z, e) stores e in the bucket index(z) when the bucket
\* is empty or when depth + age + flag of e is at least that of the entry
\* in place, and leaves the bucket as it is otherwise; it changes no other
\* bucket, so each bucket holds nothing or an entry that was inserted at
\* its index.
InsertReplacesByRank ==
    /\ [][inserts' # inserts =>
            LET z == inserts'[Len(inserts')][1]
                e == inserts'[Len(inserts')][2]
                i == z % SIZE
            IN /\ buckets'[i] = IF buckets[i] = None
                                   \/ Priority(e) >= Priority(Unwrap(buckets[i]))
                                THEN Some(e) ELSE buckets[i]
               /\ \A j \in (0..(SIZE - 1)) \ {i} : buckets'[j] = buckets[j]]_vars
    /\ [](\A i \in 0..(SIZE - 1) :
             buckets[i] # None =>
                \E k \in 1..Len(inserts) :
                    inserts[k][1] % SIZE = i /\ inserts[k][2] = Unwrap(buckets[i]))

\* An entry was replaced by another entry of the same rank, inserted under
\* another key of the same bucket.
TieReplacedLowerRefused ==
    /\ Len(inserts) = 2
    /\ inserts[1][1] % SIZE = inserts[2][1] % SIZE
    /\ inserts[1][1] # inserts[2][1]
    /\ inserts[1][2] # inserts[2][2]
    /\ Priority(inserts[1][2]) = Priority(inserts[2][2])
    /\ buckets[inserts[2][1] % SIZE] = Some(inserts[2][2])

(***************************************************************************)
(* What a caller of init() finds when its call returns.                    *)
(***************************************************************************)

\* A call of init() by thread t has returned, and t is in no other call.
Returned(t) == pc[t] = "idle" /\ calls[t] > 0

\* Thread t is between the assignment of DONE and the end of the last
\* sub-initializer: it has tables left to write.
Writing(t) == pc[t] \in {"bitboard", "zobrist", "attacks"}

\* C34: when a call of init() returns, in any interleaving of concurrent
\* callers, the bitboard, zobrist and attack tables are populated and no
\* thread is still writing them.
InitReturnsWithTablesReady ==
    \A t \in Threads :
        Returned(t) =>
            /\ \A k \in DOMAIN inits : inits[k] >= 1
            /\ \A u \in Threads : ~Writing(u)

(***************************************************************************)
(* The history test_upcoming_repetition reads.                             *)
(***************************************************************************)

\* C35: on every board, one freshly parsed from a FEN with any halfmove
\* clock included, test_upcoming_repetition reads only entries of
\* prev_states that exist, and returns a boolean.
RepetitionTestReturns ==
    (~panic /\ KingPresent(Board)) => test_upcoming_repetition(Board).ok

(***************************************************************************)
(* The width of the halfmove clock.                                        *)
(***************************************************************************)

\* C36: the halfmove clock never overflows: every do_move of a quiet move of
\* a piece other than a pawn, which is a move do_move returns true for,
\* leaves the clock at its value before plus 1, a value of a u8, also when
\* the value before came from the halfmove field of a FEN.
HalfmoveNeverWraps ==
    [][(Len(moves') = Len(moves) + 1 /\ ~panic' /\ ret') =>
          /\ state'.halfmove = state.halfmove + 1
          /\ state'.halfmove \in 0..255]_vars

====
